---- MODULE Spec2Model ----
(***************************************************************************)
(* Smart CCTV system: the alert-rule engine (src/src/alerts/               *)
(* alert_manager.py) and the per-camera capture pipeline (src/src/capture/ *)
(* camera_manager.py), as state machines.                                  *)
(*                                                                         *)
(* Conventions.  Python None is the string "None".  Confidences are whole  *)
(* percents (0.5 is 50).  time.time() is a whole number of seconds drawn   *)
(* from Times; it is an input of every call that reads the clock, so the   *)
(* clock is not assumed monotonic.  A Frame carries only the fields the    *)
(* engine and the pipeline read (camera_id, frame_number).                 *)
(***************************************************************************)
EXTENDS Integers, Sequences, FiniteSets, TLC

VARIABLES
    rules,          \* AlertManager.rules: name -> AlertRule
    recent_alerts,  \* AlertManager.recent_alerts: sequence of AlertEvent
    triggers,       \* history: every _trigger_alert call that built an event, in order
    exec,           \* history: the _execute_action calls of the latest trigger, in order
    streams,        \* CameraManager.cameras: camera id -> CameraStream
    thread,         \* position of each camera's capture thread in _capture_loop
    callers,        \* position of each caller of get_frame
    readBetween,    \* history: a frame was read since the first counted reconnect attempt
    dropped,        \* history: frames each camera read and dropped on a full queue
    captured,       \* history: the images each camera's capture thread read, in order
    delivered,      \* history: the frames get_frame returned for each camera, in order
    count,          \* KalmanBoxTracker.count, the class attribute
    object_trackers,\* the ObjectTracker instances: name -> ObjectTracker
    last_tracks,    \* the list update returned last, per instance and camera
    issued,         \* history: the identifiers given to new tracks, with the instance, in order
    calls,          \* history: the number of update calls made on each instance
    scene,          \* the object in front of the camera: its box and its motion per frame
    probe,          \* one call of a pure method: its arguments and, once made, its result
    lock,           \* AlertManager.lock: the thread holding it, or None
    evaluator,      \* position of the thread that calls evaluate, with the call's locals
    admin,          \* position of the administrative thread
    main            \* SmartCCTVSystem: running, and the orchestration loop's position and locals

alertVars == <<rules, recent_alerts, triggers, exec>>
cameraVars == <<streams, thread, callers, readBetween, dropped, captured, delivered>>
trackerVars == <<count, object_trackers, last_tracks, issued, calls, scene>>
vars == <<rules, recent_alerts, triggers, exec,
          streams, thread, callers, readBetween, dropped, captured, delivered,
          count, object_trackers, last_tracks, issued, calls, scene, probe,
          lock, evaluator, admin, main>>

\* What the operations of one component leave alone.
threadVars == <<lock, evaluator, admin>>
otherThanEngine == <<cameraVars, trackerVars, probe, main>>
otherThanAlert == <<cameraVars, trackerVars, probe, threadVars, main>>
otherThanCamera == <<alertVars, trackerVars, probe, threadVars, main>>
otherThanTracker == <<alertVars, cameraVars, probe, threadVars, main>>
otherThanProbe == <<alertVars, cameraVars, trackerVars, threadVars, main>>
otherThanPipeline == <<alertVars, cameraVars, probe, threadVars>>

None == "None"

Last(s) == s[Len(s)]

(***************************************************************************)
(* Bounds of the model.                                                    *)
(***************************************************************************)
Epoch == 100        \* time.time() at the first call; larger than any cooldown
MaxTime == 4        \* the clock is read within Epoch .. Epoch + MaxTime
MaxPulled == 4      \* frames the orchestration loop pulls (PipelineSpec)
MaxTracks == 2      \* tracks handed to one evaluate call
MaxOverflow == 3    \* events appended beyond the buffer's capacity (RingSpec)
MaxFrames == 12     \* frames the source of a camera delivers (CameraSpec)
ShortFrames == 2    \* frames a source delivers when several threads share the run
MaxUpdates == 3     \* update calls made on one tracker instance (TrackerSpec)
MaxDetections == 2  \* detections handed to one update call
LinearUpdates == 5  \* updates of the linear-motion scenario
OtherUpdates == 2   \* update calls made on the second tracker instance
MaxCoord == 2       \* box corners lie in 0..MaxCoord where IoU is computed (IoUSpec)
MaxCycles == 4      \* update calls of the association scenario (CycleSpec)
MaxAlerts == 3      \* events triggered before get_recent_alerts is called (RecentSpec)
MaxLimit == 4       \* get_recent_alerts is called with a limit in 0..MaxLimit

Times == Epoch .. (Epoch + MaxTime)

(***************************************************************************)
(* Program constants.                                                      *)
(***************************************************************************)
MaxRecentAlerts == 1000     \* "Keep only recent alerts (last 1000)"
QueueMaxSize == 10          \* Queue(maxsize=10)
MaxReconnectAttempts == 10  \* self.max_reconnect_attempts = 10
RecencyWindow == 5          \* is_active: "time.time() - self.last_frame_time < 5.0"
DefaultLimit == 50          \* get_recent_alerts(self, limit: int = 50)

(***************************************************************************)
(* Inputs of evaluate: the frame's camera and the tracker's tracks.        *)
(***************************************************************************)
CameraIds == {"cam1", "cam2"}

Frames == [camera_id : CameraIds]

TrackPool ==
    { [track_id |-> 1, class_name |-> "person", confidence |-> 90],
      [track_id |-> 2, class_name |-> "person", confidence |-> 50],
      [track_id |-> 3, class_name |-> "car",    confidence |-> 80] }

\* Lists of distinct tracks (the tracker gives every track its own id).
TrackLists ==
    UNION { { l \in [1..n -> TrackPool] :
                \A i, j \in 1..n : i # j => l[i].track_id # l[j].track_id }
            : n \in 0..MaxTracks }

\* What the outside world answers to one action of each kind during one call:
\* "ok" (HTTP 200, speak() returned True, file written), "fail" (another
\* status, speak() returned False) or "raise" (an exception).
Outcomes == {"ok", "fail", "raise"}
Services == {"webhook", "audio_alert", "snapshot"}
Envs == { e \in [Services -> Outcomes] :
            e["audio_alert"] # "raise" /\ e["snapshot"] # "fail" }

(***************************************************************************)
(* Rule configuration (config key alert_rules), as _parse_alert_rule       *)
(* builds it.                                                              *)
(***************************************************************************)
AlertAction(type, message, url) ==
    [action_type |-> type, message |-> message, webhook_url |-> url]

\* A rule as _parse_alert_rule builds it from its configuration entry, whose
\* values it does not validate.  An absent time_range or distance_to_reference
\* (None, as falsy as an empty one) is << >>.  malformed names the numeric
\* fields whose configured value is not a number (a string, None): such a
\* field raises TypeError where it is compared.
AlertRule(name, cams, class, threshold, actions, cooldown) ==
    [name |-> name, enabled |-> TRUE, priority |-> "medium",
     conditions |-> [camera_ids |-> cams, time_range |-> << >>,
                     object_class |-> class, distance_to_reference |-> << >>,
                     zone_name |-> None, confidence_threshold |-> threshold,
                     malformed |-> {}],
     actions |-> actions, cooldown |-> cooldown, last_triggered |-> 0,
     malformed |-> {}]

RuleOrder == <<"intrusion", "vehicle">>
RuleNames == {RuleOrder[i] : i \in 1..Len(RuleOrder)}

IntrusionActions ==
    << AlertAction("webhook", None, "http://hook"),
       AlertAction("audio_alert", "Intruder", None),
       AlertAction("log", None, None) >>

\* The rule sets the engine is constructed with, one per run: the intrusion
\* rule alone (three actions), the vehicle rule alone (no action, a webhook
\* without a URL, or an unknown kind followed by a snapshot), or both rules
\* (the intrusion rule with a higher threshold and a log action).
VehicleActionChoices ==
    { << >>,
      << AlertAction("webhook", None, None) >>,
      << AlertAction("email", None, None), AlertAction("snapshot", None, None) >> }

Intrusion(threshold, actions) ==
    AlertRule("intrusion", <<"cam1">>, "person", threshold, actions, 3)
Vehicle(actions, cooldown) ==
    AlertRule("vehicle", << >>, "car", 50, actions, cooldown)

AlertConfigs ==
    { [n \in {"intrusion"} |-> Intrusion(50, IntrusionActions)] }
    \cup { [n \in {"vehicle"} |-> Vehicle(va, 2)] : va \in VehicleActionChoices }
    \cup { [n \in RuleNames |->
                IF n = "intrusion"
                THEN Intrusion(60, << AlertAction("log", None, None) >>)
                ELSE Vehicle(<< >>, 4)] }

(***************************************************************************)
(* The time window of a rule.  A time string is the sequence of its        *)
(* characters; datetime.time is hour, minute and second (the instant       *)
(* hh:mm:00 stands for hh:mm:00.000000, the only instant the window's ends *)
(* can equal).                                                             *)
(***************************************************************************)

DigitChars == <<"0", "1", "2", "3", "4", "5", "6", "7", "8", "9">>

IsDigit(ch) == \E d \in 1..Len(DigitChars) : DigitChars[d] = ch

DigitValue(ch) == (CHOOSE d \in 1..Len(DigitChars) : DigitChars[d] = ch) - 1

\* str.split(sep): the pieces between the separators, empty pieces included.
RECURSIVE split(_, _)
split(str, sep) ==
    IF \A i \in 1..Len(str) : str[i] # sep
    THEN <<str>>
    ELSE LET i == CHOOSE j \in 1..Len(str) :
                      str[j] = sep /\ \A k \in 1..(j - 1) : str[k] # sep
         IN  <<SubSeq(str, 1, i - 1)>> \o split(SubSeq(str, i + 1, Len(str)), sep)

\* int(str) of a string of the inputs: its value if it is made of decimal
\* digits, ValueError otherwise.
IntRaises(str) == Len(str) = 0 \/ \E i \in 1..Len(str) : ~IsDigit(str[i])

RECURSIVE int(_)
int(str) ==
    IF Len(str) = 1 THEN DigitValue(str[1])
    ELSE 10 * int(SubSeq(str, 1, Len(str) - 1)) + DigitValue(str[Len(str)])

\* "start_hour, start_min = map(int, start_time.split(':'))" followed by
\* "datetime.now().replace(hour=..., minute=..., second=0, microsecond=0).time()":
\* the time, or the exception either line raises.
ParseTime(str) ==
    LET parts == split(str, ":") IN
    IF Len(parts) # 2 THEN [raised |-> TRUE]
    ELSE IF IntRaises(parts[1]) \/ IntRaises(parts[2]) THEN [raised |-> TRUE]
    ELSE IF int(parts[1]) \notin 0..23 \/ int(parts[2]) \notin 0..59
    THEN [raised |-> TRUE]
    ELSE [raised |-> FALSE,
          hour |-> int(parts[1]), minute |-> int(parts[2]), second |-> 0]

\* The order of datetime.time values.
TimeLeq(t1, t2) ==
    (t1.hour * 60 + t1.minute) * 60 + t1.second
        <= (t2.hour * 60 + t2.minute) * 60 + t2.second

InWindowSameDay(start, end, current_time) ==
    TimeLeq(start, current_time) /\ TimeLeq(current_time, end)

InWindow(start, end, current_time) ==
    IF TimeLeq(start, end)
    THEN TimeLeq(start, current_time) /\ TimeLeq(current_time, end)
    ELSE TimeLeq(start, current_time) \/ TimeLeq(current_time, end)

\* current_time is what datetime.now().time() returns during the call.
_is_in_time_range(time_range, current_time) ==
    IF Len(time_range) # 2 THEN TRUE
    ELSE IF ParseTime(time_range[1]).raised \/ ParseTime(time_range[2]).raised
    THEN TRUE
    ELSE InWindow(ParseTime(time_range[1]), ParseTime(time_range[2]), current_time)

(***************************************************************************)
(* The distance condition of a rule.  A dict is a function on its keys;    *)
(* distances and thresholds are exact, in hundredths of a metre, so the    *)
(* tolerance 0.1 is 10.                                                    *)
(***************************************************************************)
Tolerance == 10

\* dict.get(key, default)
get(dict, key, default) == IF key \in DOMAIN dict THEN dict[key] ELSE default

Abs(n) == IF n < 0 THEN -n ELSE n

\* "Apply operator", with the comparisons made non-strict.
ApplyOperatorInclusive(operator, distance, value) ==
    IF operator = "less_than" THEN distance <= value
    ELSE IF operator = "greater_than" THEN distance >= value
    ELSE IF operator = "equal" THEN Abs(distance - value) <= Tolerance
    ELSE FALSE

\* "Apply operator"
ApplyOperator(operator, distance, value) ==
    IF operator = "less_than" THEN distance < value
    ELSE IF operator = "greater_than" THEN distance > value
    ELSE IF operator = "equal" THEN Abs(distance - value) < Tolerance
    ELSE FALSE

_check_distance_condition(track, distance_condition) ==
    LET reference == get(distance_condition, "reference", None)
        operator == get(distance_condition, "operator", "less_than")
        value == get(distance_condition, "value", 0)
        distance_to_ref == get(track.distance_info, "distance_to_reference", << >>)
    IN  IF DOMAIN track.distance_info = {} THEN FALSE
        ELSE IF reference = None \/ reference = "" THEN FALSE
        ELSE IF reference \notin DOMAIN distance_to_ref THEN FALSE
        ELSE ApplyOperator(operator, distance_to_ref[reference], value)

(***************************************************************************)
(* Rule evaluation.                                                        *)
(***************************************************************************)
InSeq(x, s) == \E i \in 1..Len(s) : s[i] = x

\* datetime.now().time() when time.time() is current_time: both read the clock
\* of the host, which shows 21:59:58 at Epoch.
TimeOfDay(current_time) ==
    [hour |-> ((79198 + current_time - Epoch) \div 3600) % 24,
     minute |-> ((79198 + current_time - Epoch) \div 60) % 60,
     second |-> (79198 + current_time - Epoch) % 60]

\* "track.confidence < conditions.confidence_threshold" raises TypeError.
TrackRaises(track, conditions) ==
    /\ track.class_name = conditions.object_class
    /\ "confidence_threshold" \in conditions.malformed

\* A zone check that rejects a track when a zone is configured, the tracks
\* carrying no zone.
TrackMatchesInZone(track, conditions, camera_id) ==
    /\ track.class_name = conditions.object_class
    /\ ~TrackRaises(track, conditions)
    /\ ~(track.confidence < conditions.confidence_threshold)
    /\ DOMAIN conditions.distance_to_reference # {}
          => _check_distance_condition(track, conditions.distance_to_reference)
    /\ conditions.zone_name = None

_track_matches_conditions(track, conditions, camera_id) ==
    /\ track.class_name = conditions.object_class
    /\ ~TrackRaises(track, conditions)
    /\ ~(track.confidence < conditions.confidence_threshold)
    /\ DOMAIN conditions.distance_to_reference # {}
          => _check_distance_condition(track, conditions.distance_to_reference)

\* The body of _evaluate_rule under its try/except: an exception raised by a
\* track ends the loop with False, as no earlier track has returned True.
_evaluate_rule(rule, tracks, frame, now) ==
    LET conditions == rule.conditions IN
    IF Len(conditions.camera_ids) > 0 /\ ~InSeq(frame.camera_id, conditions.camera_ids)
    THEN FALSE
    ELSE IF Len(conditions.time_range) > 0
            /\ ~_is_in_time_range(conditions.time_range, now)
    THEN FALSE
    ELSE \E i \in 1..Len(tracks) :
            /\ _track_matches_conditions(tracks[i], conditions, frame.camera_id)
            /\ \A j \in 1..(i - 1) : ~TrackRaises(tracks[j], conditions)

\* "current_time - rule.last_triggered < rule.cooldown" raises TypeError.
CooldownRaises(rule) == "cooldown" \in rule.malformed

\* "Check cooldown": the rule is skipped while this holds.
InCooldownEarly(rule, current_time) ==
    current_time - rule.last_triggered < rule.cooldown - 1

InCooldownInclusive(rule, current_time) ==
    current_time - rule.last_triggered <= rule.cooldown

InCooldown(rule, current_time) ==
    current_time - rule.last_triggered < rule.cooldown

\* One action, under the try/except of _execute_action and of the executor it
\* dispatches to: TRUE iff the action completed.
_execute_action(action, env) ==
    CASE action.action_type = "audio_alert" ->
            IF action.message = None THEN FALSE ELSE env["audio_alert"] = "ok"
      [] action.action_type = "snapshot" -> env["snapshot"] # "raise"
      [] action.action_type = "log" -> TRUE
      [] action.action_type = "webhook" ->
            IF action.webhook_url = None THEN FALSE ELSE env["webhook"] = "ok"
      [] OTHER -> FALSE

\* "Execute actions": the loop of _trigger_alert over rule.actions from index i
\* on; run is [triggered_actions, exec].
RECURSIVE ExecuteActionsStopOnFailure(_, _, _, _)
ExecuteActionsStopOnFailure(actions, env, i, run) ==
    IF i > Len(actions) THEN run
    ELSE LET success == _execute_action(actions[i], env)
             log == Append(run.exec, [action_type |-> actions[i].action_type,
                                      index |-> i, success |-> success])
         IN IF success
            THEN ExecuteActionsStopOnFailure(actions, env, i + 1,
                    [triggered_actions |->
                        Append(run.triggered_actions, actions[i].action_type),
                     exec |-> log])
            ELSE [run EXCEPT !.exec = log]

RECURSIVE ExecuteActionsFrom(_, _, _, _)
ExecuteActionsFrom(actions, env, i, run) ==
    IF i > Len(actions) THEN run
    ELSE LET success == _execute_action(actions[i], env)
             log == Append(run.exec, [action_type |-> actions[i].action_type,
                                      index |-> i, success |-> success])
         IN ExecuteActionsFrom(actions, env, i + 1,
                [triggered_actions |->
                    IF success
                    THEN Append(run.triggered_actions, actions[i].action_type)
                    ELSE run.triggered_actions,
                 exec |-> log])

ExecuteActions(actions, env, i, run) == ExecuteActionsFrom(actions, env, i, run)

\* "Keep only recent alerts (last 1000)".
KeepOldest(alerts) ==
    IF Len(alerts) > MaxRecentAlerts THEN SubSeq(alerts, 1, MaxRecentAlerts) ELSE alerts

KeepRecent(alerts) ==
    IF Len(alerts) > MaxRecentAlerts
    THEN SubSeq(alerts, Len(alerts) - MaxRecentAlerts + 1, Len(alerts))
    ELSE alerts

\* The engine's state while one evaluate call runs.
EngineState == [rules |-> rules, recent_alerts |-> recent_alerts,
                triggers |-> triggers, exec |-> exec, raised |-> FALSE]

\* The last matching track instead of the first.
LastMatch(tracks, conditions, camera_id) ==
    LET hits == {i \in 1..Len(tracks) :
                    _track_matches_conditions(tracks[i], conditions, camera_id)}
    IN IF hits = {} THEN 0 ELSE CHOOSE i \in hits : \A j \in hits : i >= j

\* "Find the track that triggered the alert": its index in tracks, 0 if none.
FirstMatch(tracks, conditions, camera_id) ==
    LET hits == {i \in 1..Len(tracks) :
                    _track_matches_conditions(tracks[i], conditions, camera_id)}
    IN IF hits = {} THEN 0 ELSE CHOOSE i \in hits : \A j \in hits : i <= j

_trigger_alert(st, rule, tracks, frame, now, env) ==
    LET k == FirstMatch(tracks, rule.conditions, frame.camera_id) IN
    IF k = 0 THEN st
    ELSE LET run == ExecuteActions(rule.actions, env, 1,
                        [triggered_actions |-> << >>, exec |-> << >>])
             alert_event == [rule_name |-> rule.name, timestamp |-> now,
                             camera_id |-> frame.camera_id,
                             track_id |-> tracks[k].track_id,
                             severity |-> rule.priority,
                             triggered_actions |-> run.triggered_actions]
         IN [st EXCEPT !.recent_alerts = KeepRecent(Append(st.recent_alerts, alert_event)),
                       !.triggers = Append(st.triggers,
                                        [rule |-> rule.name, time |-> now,
                                         cooldown |-> rule.cooldown]),
                       !.exec = run.exec]

\* "rule.last_triggered = current_time", after _trigger_alert returned.
SetLastTriggeredIfDelivered(st, name, current_time) ==
    IF st.exec # << >> /\ \E i \in 1..Len(st.exec) : st.exec[i].success
    THEN [st EXCEPT !.rules[name].last_triggered = current_time]
    ELSE st

SetLastTriggered(st, name, current_time) ==
    [st EXCEPT !.rules[name].last_triggered = current_time]

\* The body of evaluate's loop for one rule.
EvaluateOne(st, name, current_time, tracks, frame, env) ==
    LET rule == st.rules[name] IN
    IF ~rule.enabled THEN st
    ELSE IF CooldownRaises(rule) THEN [st EXCEPT !.raised = TRUE]
    ELSE IF InCooldown(rule, current_time) THEN st
    ELSE IF _evaluate_rule(rule, tracks, frame, TimeOfDay(current_time))
         THEN SetLastTriggered(
                _trigger_alert(st, rule, tracks, frame, current_time, env),
                name, current_time)
         ELSE st

\* "for rule in self.rules.values()": the rules in insertion order, until the
\* end or an exception, which nothing in evaluate catches.
RECURSIVE EvaluateFrom(_, _, _, _, _, _)
EvaluateFrom(i, st, current_time, tracks, frame, env) ==
    IF i > Len(RuleOrder) \/ st.raised THEN st
    ELSE EvaluateFrom(i + 1,
            IF RuleOrder[i] \in DOMAIN st.rules
            THEN EvaluateOne(st, RuleOrder[i], current_time, tracks, frame, env)
            ELSE st,
            current_time, tracks, frame, env)

\* Whether some rule runs its actions in this call (the environment's answers
\* matter only then).
Fires(current_time, tracks, frame) ==
    \E n \in DOMAIN rules :
        /\ rules[n].enabled
        /\ ~CooldownRaises(rules[n])
        /\ ~InCooldown(rules[n], current_time)
        /\ _evaluate_rule(rules[n], tracks, frame, TimeOfDay(current_time))

QuietEnv == [s \in Services |-> "ok"]

\* The services the configured actions call; the others answer "ok".
UsedServices ==
    { s \in Services : \E n \in DOMAIN rules : \E i \in 1..Len(rules[n].actions) :
                            rules[n].actions[i].action_type = s }
UsedEnvs == { e \in Envs : \A s \in Services \ UsedServices : e[s] = "ok" }

\* What one evaluate call does to the engine.
evaluate_body(tracks, frame, current_time, env) ==
    LET st == EvaluateFrom(1, EngineState, current_time, tracks, frame, env) IN
    /\ rules' = st.rules
    /\ recent_alerts' = st.recent_alerts
    /\ triggers' = st.triggers
    /\ exec' = st.exec

\* The evaluate call as a step of the program.
evaluate(tracks, frame, current_time, env) ==
    /\ evaluate_body(tracks, frame, current_time, env)
    /\ UNCHANGED otherThanAlert

Evaluate ==
    \E current_time \in Times, frame \in Frames, tracks \in TrackLists :
        IF Fires(current_time, tracks, frame)
        THEN \E env \in UsedEnvs : evaluate(tracks, frame, current_time, env)
        ELSE evaluate(tracks, frame, current_time, QuietEnv)

enable_rule(rule_name) ==
    /\ rule_name \in DOMAIN rules
    /\ rules' = [rules EXCEPT ![rule_name].enabled = TRUE]
    /\ UNCHANGED <<recent_alerts, triggers, exec>>
    /\ UNCHANGED otherThanAlert

disable_rule(rule_name) ==
    /\ rule_name \in DOMAIN rules
    /\ rules' = [rules EXCEPT ![rule_name].enabled = FALSE]
    /\ UNCHANGED <<recent_alerts, triggers, exec>>
    /\ UNCHANGED otherThanAlert

EnableRule == \E n \in RuleNames : enable_rule(n)
DisableRule == \E n \in RuleNames : disable_rule(n)

\* AlertManager.stop: "self.rules.clear(); self.recent_alerts.clear()".
AlertStop ==
    /\ DOMAIN rules # {}
    /\ rules' = << >>
    /\ recent_alerts' = << >>
    /\ UNCHANGED <<triggers, exec>>
    /\ UNCHANGED otherThanAlert

(***************************************************************************)
(* evaluate statement by statement, as one thread runs it while another    *)
(* thread calls enable_rule, disable_rule, get_recent_alerts and stop.     *)
(* "with self.lock" is an acquire that waits while another thread holds    *)
(* the lock, and a release when the block is left.                         *)
(***************************************************************************)
\* What the evaluation thread passes to evaluate while another thread runs.
ThreadFrames == {[camera_id |-> "cam1"]}
ThreadTrackLists == { l \in TrackLists : Len(l) <= 1 }

\* The evaluation thread outside evaluate.
Returned_evaluate ==
    [pc |-> "idle", current_time |-> 0, tracks |-> << >>, frame |-> [camera_id |-> None],
     todo |-> << >>, triggered_actions |-> << >>, i |-> 0]

\* Leave the body of the loop: on to the next rule, or out of the with block.
NextRule(ev) ==
    [ev EXCEPT !.todo = Tail(@), !.triggered_actions = << >>, !.i = 0,
               !.pc = IF Len(ev.todo) > 1 THEN "enabled" ELSE "release"]

\* "current_time = time.time()"
evaluate_call ==
    /\ evaluator.pc = "idle"
    /\ \E current_time \in Times, frame \in ThreadFrames, tracks \in ThreadTrackLists :
          evaluator' = [Returned_evaluate EXCEPT !.pc = "acquire",
                            !.current_time = current_time,
                            !.frame = frame, !.tracks = tracks]
    /\ UNCHANGED <<alertVars, lock, admin, otherThanEngine>>

\* "with self.lock:" and "for rule in self.rules.values():"
evaluate_acquire ==
    /\ evaluator.pc = "acquire"
    /\ lock = None
    /\ lock' = "evaluator"
    /\ \E todo \in {SelectSeq(RuleOrder, LAMBDA n : n \in DOMAIN rules)} :
          evaluator' = [evaluator EXCEPT !.todo = todo,
                            !.pc = IF Len(todo) > 0 THEN "enabled" ELSE "release"]
    /\ UNCHANGED <<alertVars, admin, otherThanEngine>>

\* "if not rule.enabled: continue"
evaluate_enabled ==
    /\ evaluator.pc = "enabled"
    /\ evaluator' = IF rules[Head(evaluator.todo)].enabled
                    THEN [evaluator EXCEPT !.pc = "cooldown"]
                    ELSE NextRule(evaluator)
    /\ UNCHANGED <<alertVars, lock, admin, otherThanEngine>>

\* "Check cooldown" and "Evaluate rule conditions"
evaluate_conditions ==
    /\ evaluator.pc = "cooldown"
    /\ LET rule == rules[Head(evaluator.todo)] IN
       evaluator' = IF CooldownRaises(rule)
                    THEN [evaluator EXCEPT !.pc = "release"]
                    ELSE IF ~InCooldown(rule, evaluator.current_time)
                            /\ _evaluate_rule(rule, evaluator.tracks, evaluator.frame,
                                              TimeOfDay(evaluator.current_time))
                    THEN [evaluator EXCEPT !.pc = "trigger"]
                    ELSE NextRule(evaluator)
    /\ UNCHANGED <<alertVars, lock, admin, otherThanEngine>>

\* _trigger_alert up to "Create alert event"
evaluate_trigger ==
    /\ evaluator.pc = "trigger"
    /\ LET rule == rules[Head(evaluator.todo)]
           k == FirstMatch(evaluator.tracks, rule.conditions, evaluator.frame.camera_id)
       IN  IF k = 0
           THEN /\ evaluator' = [evaluator EXCEPT !.pc = "last_triggered"]
                /\ UNCHANGED <<triggers, exec>>
           ELSE /\ triggers' = Append(triggers,
                                      [rule |-> rule.name, time |-> evaluator.current_time,
                                       cooldown |-> rule.cooldown])
                /\ exec' = << >>
                /\ evaluator' = [evaluator EXCEPT !.i = 1,
                                    !.pc = IF Len(rule.actions) > 0 THEN "action"
                                           ELSE "store"]
    /\ UNCHANGED <<rules, recent_alerts, lock, admin, otherThanEngine>>

\* "success = self._execute_action(...)": one action runs to its end.
evaluate_action ==
    /\ evaluator.pc = "action"
    /\ LET rule == rules[Head(evaluator.todo)]
           action == rule.actions[evaluator.i]
       IN  \E env \in UsedEnvs :
             \E success \in {_execute_action(action, env)} :
               /\ exec' = Append(exec, [action_type |-> action.action_type,
                                        index |-> evaluator.i, success |-> success])
               /\ evaluator' = [evaluator EXCEPT
                                   !.triggered_actions =
                                       IF success THEN Append(@, action.action_type) ELSE @,
                                   !.i = @ + 1,
                                   !.pc = IF evaluator.i < Len(rule.actions)
                                          THEN "action" ELSE "store"]
    /\ UNCHANGED <<rules, recent_alerts, triggers, lock, admin, otherThanEngine>>

\* "Store alert" and "Keep only recent alerts"
evaluate_store ==
    /\ evaluator.pc = "store"
    /\ LET rule == rules[Head(evaluator.todo)]
           k == FirstMatch(evaluator.tracks, rule.conditions, evaluator.frame.camera_id)
           alert_event == [rule_name |-> rule.name, timestamp |-> evaluator.current_time,
                           camera_id |-> evaluator.frame.camera_id,
                           track_id |-> evaluator.tracks[k].track_id,
                           severity |-> rule.priority,
                           triggered_actions |-> evaluator.triggered_actions]
       IN  recent_alerts' = KeepRecent(Append(recent_alerts, alert_event))
    /\ evaluator' = [evaluator EXCEPT !.pc = "last_triggered"]
    /\ UNCHANGED <<rules, triggers, exec, lock, admin, otherThanEngine>>

\* "rule.last_triggered = current_time"
evaluate_last_triggered ==
    /\ evaluator.pc = "last_triggered"
    /\ rules' = [rules EXCEPT ![Head(evaluator.todo)].last_triggered =
                                    evaluator.current_time]
    /\ evaluator' = NextRule(evaluator)
    /\ UNCHANGED <<recent_alerts, triggers, exec, lock, admin, otherThanEngine>>

\* The end of the with block.
evaluate_release ==
    /\ evaluator.pc = "release"
    /\ lock' = None
    /\ evaluator' = Returned_evaluate
    /\ UNCHANGED <<alertVars, admin, otherThanEngine>>

\* The administrative thread calls a method that takes the lock.
LockingMethods == {"get_recent_alerts", "stop"}

admin_call ==
    /\ admin.pc = "idle"
    /\ \E method \in LockingMethods : admin' = [admin EXCEPT !.pc = method]
    /\ UNCHANGED <<alertVars, lock, evaluator, otherThanEngine>>

\* "return self.recent_alerts[-limit:] if self.recent_alerts else []", for
\* limit >= 0.  The slice [-limit:] starts limit places before the end when
\* limit > 0, and is [0:], the whole list, when limit = 0.
LastAlerts(limit) ==
    IF limit > 0 /\ Len(recent_alerts) > limit
    THEN SubSeq(recent_alerts, Len(recent_alerts) - limit + 1, Len(recent_alerts))
    ELSE recent_alerts

\* get_recent_alerts: the with block, entered once the lock is free.
get_recent_alerts ==
    /\ admin.pc = "get_recent_alerts"
    /\ lock = None
    /\ admin' = [pc |-> "idle", result |-> LastAlerts(DefaultLimit)]
    /\ UNCHANGED <<alertVars, lock, evaluator, otherThanEngine>>

\* stop: the with block, entered once the lock is free.
stop ==
    /\ admin.pc = "stop"
    /\ lock = None
    /\ rules' = << >>
    /\ recent_alerts' = << >>
    /\ admin' = [admin EXCEPT !.pc = "idle"]
    /\ UNCHANGED <<triggers, exec, lock, evaluator, otherThanEngine>>

\* enable_rule and disable_rule, which take no lock.
admin_enable_rule == admin.pc = "idle" /\ EnableRule
admin_disable_rule == admin.pc = "idle" /\ DisableRule

(***************************************************************************)
(* CameraStream and CameraManager.                                         *)
(***************************************************************************)
CameraOrder == <<"cam1", "cam2">>

CameraStream(id) ==
    [id |-> id, enabled |-> TRUE, cap |-> None, running |-> FALSE,
     frame_queue |-> << >>, frame_number |-> 0, last_frame_time |-> 0,
     reconnect_attempts |-> 0, max_reconnect_attempts |-> MaxReconnectAttempts]

Frame(camera_id, frame_number) ==
    [camera_id |-> camera_id, frame_number |-> frame_number,
     image |-> Last(captured[camera_id])]

\* time.time() as the capture thread reads it when it enqueues frame n: one
\* second per enqueued frame.
FrameTime(n) == Epoch + n

\* The times at which is_active may be asked.
QueryTimes == Epoch .. (Epoch + MaxFrames + RecencyWindow)

\* queue.Queue.put(item, block): the queue after the call and how the call
\* ended ("ok", "Full" raised, or "wait": the caller is suspended).
QueuePutBlocking(q, item, block) ==
    IF Len(q) < QueueMaxSize
    THEN [queue |-> Append(q, item), result |-> "ok"]
    ELSE [queue |-> q, result |-> "wait"]

QueuePut(q, item, block) ==
    IF Len(q) < QueueMaxSize
    THEN [queue |-> Append(q, item), result |-> "ok"]
    ELSE IF block THEN [queue |-> q, result |-> "wait"]
         ELSE [queue |-> q, result |-> "Full"]

\* A queue that hands out its newest item.
QueueGetNewest(q) ==
    [item |-> q[Len(q)], queue |-> SubSeq(q, 1, Len(q) - 1)]

\* queue.Queue.get() on a non-empty queue: the item returned and the queue
\* after the call.
QueueGet(q) ==
    [item |-> Head(q), queue |-> Tail(q)]

\* CameraStream.start.
start(c) ==
    /\ thread[c] = "idle"
    /\ streams[c].enabled
    /\ streams' = [streams EXCEPT ![c].running = TRUE]
    /\ thread' = [thread EXCEPT ![c] = "loop"]
    /\ UNCHANGED <<callers, readBetween, dropped, captured, delivered>>
    /\ UNCHANGED otherThanCamera

\* A loop written "while True:", which does not consult self.running.
CaptureLoopForever(c) ==
    /\ thread[c] = "loop"
    /\ thread' = [thread EXCEPT ![c] =
                    IF streams[c].cap # "Open" THEN "connect" ELSE "read"]
    /\ UNCHANGED <<streams, callers, readBetween, dropped, captured, delivered>>
    /\ UNCHANGED otherThanCamera

\* "while self.running:" and the test "self.cap is None or not self.cap.isOpened()".
CaptureLoop(c) ==
    /\ thread[c] = "loop"
    /\ thread' = [thread EXCEPT ![c] =
                    IF ~streams[c].running THEN "exit"
                    ELSE IF streams[c].cap # "Open" THEN "connect"
                    ELSE "read"]
    /\ UNCHANGED <<streams, callers, readBetween, dropped, captured, delivered>>
    /\ UNCHANGED otherThanCamera

\* _connect, and "if self.cap is None: time.sleep(5); continue".
\* outcomes: what cv2.VideoCapture(url) may do for this camera.
_connect(c, outcomes) ==
    /\ thread[c] = "connect"
    /\ \E r \in outcomes :
          IF r = "ok"
          THEN /\ streams' = [streams EXCEPT ![c].cap = "Open"]
               /\ thread' = [thread EXCEPT ![c] = "read"]
          ELSE /\ streams' = [streams EXCEPT ![c].cap = None]
               /\ thread' = [thread EXCEPT ![c] = "loop"]
    /\ UNCHANGED <<callers, readBetween, dropped, captured, delivered>>
    /\ UNCHANGED otherThanCamera

\* _reconnect: the stream after the call.
_reconnect(s) ==
    LET attempts == s.reconnect_attempts + 1 IN
    [s EXCEPT !.cap = None,
              !.reconnect_attempts = attempts,
              !.running = IF attempts >= s.max_reconnect_attempts
                          THEN FALSE ELSE s.running]

\* "ret, image = self.cap.read()" and the failure branch.  outcomes: what the
\* read may do for this camera; the source delivers at most maxFrames frames,
\* and a handle that was released delivers none.
ReadFrame(c, outcomes, maxFrames) ==
    /\ thread[c] = "read"
    /\ \E r \in outcomes :
          IF r = "ok" /\ streams[c].cap = "Open"
          THEN /\ streams[c].frame_number + dropped[c] < maxFrames
               /\ thread' = [thread EXCEPT ![c] = "put"]
               /\ captured' = [captured EXCEPT ![c] = Append(@, Len(@))]
               /\ readBetween' = [readBetween EXCEPT ![c] =
                                    @ \/ streams[c].reconnect_attempts > 0]
               /\ UNCHANGED streams
          ELSE /\ streams' = [streams EXCEPT ![c] = _reconnect(@)]
               /\ thread' = [thread EXCEPT ![c] = "loop"]
               /\ UNCHANGED <<readBetween, captured>>
    /\ UNCHANGED <<callers, dropped, delivered, otherThanCamera>>

\* A put that advances frame_number before the insert is attempted, so that a
\* dropped frame uses up its number.
PutFrameCountingDrops(c) ==
    /\ thread[c] = "put"
    /\ LET s == streams[c]
           r == QueuePut(s.frame_queue, Frame(s.id, s.frame_number), FALSE)
       IN /\ r.result # "wait"
          /\ IF r.result = "ok"
             THEN /\ streams' = [streams EXCEPT ![c] =
                        [s EXCEPT !.frame_queue = r.queue,
                                  !.frame_number = s.frame_number + 1,
                                  !.last_frame_time = FrameTime(s.frame_number),
                                  !.reconnect_attempts = 0]]
                  /\ readBetween' = [readBetween EXCEPT ![c] = FALSE]
                  /\ UNCHANGED dropped
             ELSE /\ dropped' = [dropped EXCEPT ![c] = @ + 1]
                  /\ streams' = [streams EXCEPT ![c].frame_number = s.frame_number + 1]
                  /\ UNCHANGED readBetween
    /\ thread' = [thread EXCEPT ![c] = "loop"]
    /\ UNCHANGED <<callers, captured, delivered, otherThanCamera>>

\* "self.frame_queue.put(frame, block=False)" with its try/except Full.
PutFrame(c) ==
    /\ thread[c] = "put"
    /\ LET s == streams[c]
           r == QueuePut(s.frame_queue, Frame(s.id, s.frame_number), FALSE)
       IN /\ r.result # "wait"
          /\ IF r.result = "ok"
             THEN /\ streams' = [streams EXCEPT ![c] =
                        [s EXCEPT !.frame_queue = r.queue,
                                  !.frame_number = s.frame_number + 1,
                                  !.last_frame_time = FrameTime(s.frame_number),
                                  !.reconnect_attempts = 0]]
                  /\ readBetween' = [readBetween EXCEPT ![c] = FALSE]
                  /\ UNCHANGED dropped
             ELSE /\ dropped' = [dropped EXCEPT ![c] = @ + 1]
                  /\ UNCHANGED <<streams, readBetween>>
    /\ thread' = [thread EXCEPT ![c] = "loop"]
    /\ UNCHANGED <<callers, captured, delivered, otherThanCamera>>

\* CameraStream.is_active at time now.
is_active(c, now) ==
    /\ streams[c].running
    /\ streams[c].cap # None
    /\ now - streams[c].last_frame_time < RecencyWindow

\* CameraManager.active_count at time now.
active_count(now) == Cardinality({c \in DOMAIN streams : is_active(c, now)})

\* The cameras in the order of CameraManager.cameras.
Configured == SelectSeq(CameraOrder, LAMBDA c : c \in DOMAIN streams)

\* get_frame, first statement: "if not self.frame_queue.empty()".
\* after: where the caller goes when get_frame has returned.
get_frame_empty(k, c, after) ==
    /\ callers[k].phase = "check"
    /\ callers[k].cam = c
    /\ callers' = [callers EXCEPT ![k] =
                     IF streams[c].frame_queue # << >>
                     THEN [cam |-> c, phase |-> "get"]
                     ELSE after]
    /\ UNCHANGED <<streams, thread, readBetween, dropped, captured, delivered>>
    /\ UNCHANGED otherThanCamera

\* get_frame, second statement: "return self.frame_queue.get()", which waits
\* while the queue is empty.
get_frame_get(k, c, after) ==
    /\ callers[k].phase = "get"
    /\ callers[k].cam = c
    /\ streams[c].frame_queue # << >>
    /\ LET r == QueueGet(streams[c].frame_queue)
       IN /\ streams' = [streams EXCEPT ![c].frame_queue = r.queue]
          /\ delivered' = [delivered EXCEPT ![c] = Append(@, r.item)]
    /\ callers' = [callers EXCEPT ![k] = after]
    /\ UNCHANGED <<thread, readBetween, dropped, captured>>
    /\ UNCHANGED otherThanCamera

\* CameraManager.get_frames in the orchestration thread: get_frame on every
\* camera in order, again and again.
NextCamera(c) ==
    LET i == CHOOSE j \in 1..Len(Configured) : Configured[j] = c
    IN Configured[IF i = Len(Configured) THEN 1 ELSE i + 1]

get_frames ==
    \E c \in DOMAIN streams :
        LET after == [cam |-> NextCamera(c), phase |-> "check"] IN
        \/ get_frame_empty("main", c, after)
        \/ get_frame_get("main", c, after)

\* Another thread calling get_frame on a stream it got from get_camera.
OtherCaller ==
    \E c \in DOMAIN streams :
        \/ /\ callers["other"].phase = "idle"
           /\ callers' = [callers EXCEPT !["other"] = [cam |-> c, phase |-> "check"]]
           /\ UNCHANGED <<streams, thread, readBetween, dropped, captured, delivered, otherThanCamera>>
        \/ get_frame_empty("other", c, [cam |-> None, phase |-> "idle"])
        \/ get_frame_get("other", c, [cam |-> None, phase |-> "idle"])

\* CameraStream.stop, called by thread k: "self.running = False".
stop_running(k, c) ==
    /\ callers[k].phase = "idle"
    /\ streams' = [streams EXCEPT ![c].running = FALSE]
    /\ callers' = [callers EXCEPT ![k] = [cam |-> c, phase |-> "join"]]
    /\ UNCHANGED <<thread, readBetween, dropped, captured, delivered, otherThanCamera>>

\* "if self.thread: self.thread.join(timeout=2)": the call returns when the
\* thread has ended, or after two seconds, which can pass while the thread
\* sleeps (at the end of an iteration), connects or reads.
stop_join(k, c) ==
    /\ callers[k].phase = "join"
    /\ callers[k].cam = c
    /\ thread[c] \in {"idle", "exit", "loop", "connect", "read"}
    /\ callers' = [callers EXCEPT ![k].phase = "release"]
    /\ UNCHANGED <<streams, thread, readBetween, dropped, captured, delivered, otherThanCamera>>

\* "if self.cap: self.cap.release()": the attribute keeps the released handle.
stop_release(k, c) ==
    /\ callers[k].phase = "release"
    /\ callers[k].cam = c
    /\ streams' = [streams EXCEPT ![c].cap = IF @ = None THEN None ELSE "Released"]
    /\ callers' = [callers EXCEPT ![k].phase = "stopped"]
    /\ UNCHANGED <<thread, readBetween, dropped, captured, delivered, otherThanCamera>>

\* The thread that shuts the system down calls stop on a stream.
StreamStop ==
    \E c \in DOMAIN streams :
        \/ stop_running("other", c)
        \/ stop_join("other", c)
        \/ stop_release("other", c)

(***************************************************************************)
(* ObjectTracker and KalmanBoxTracker (src/src/tracking/object_tracker.py).*)
(*                                                                         *)
(* A box is <<x1, y1, x2, y2>> and a point <<x, y>>, in whole pixels.  The *)
(* Kalman filter's floats are fixed-point numbers: positions and           *)
(* velocities in 1/PosScale pixel, covariances in 1/CovScale, gains in     *)
(* 1/GainScale, costs in 1/CostScale; integers stay below IntLimit in size.*)
(* The filter's matrices are block diagonal and equal for                  *)
(* both axes, so one axis' covariance [[a, b], [b, c]] of (position,       *)
(* velocity) stands for both.                                              *)
(***************************************************************************)
PosScale == 1000
CovScale == 1000
GainScale == 100000
CostScale == 1000000
IntLimit == 2000000000

\* int(x) of Python for the fraction n / d (d > 0): truncation towards zero.
Trunc(n, d) == IF n >= 0 THEN n \div d ELSE -((-n) \div d)

Max(a, b) == IF a > b THEN a ELSE b
Min(a, b) == IF a < b THEN a ELSE b

\* The product x * y / d (y >= 0, d > 0) of fixed-point numbers, giving up
\* digits of x and d when x * y would not fit the integers.
RECURSIVE MulDiv(_, _, _)
MulDiv(x, y, d) ==
    IF y = 0 \/ (IF x >= 0 THEN x ELSE -x) <= IntLimit \div y
    THEN Trunc(x * y, d)
    ELSE MulDiv(Trunc(x, 10), y, Trunc(d, 10))

\* KalmanFilter(dim_x=4, dim_z=2) as KalmanBoxTracker.__init__ sets it up:
\* x = [cx, cy, 0, 0], P = diag(10, 10, 10000, 10000).
KalmanFilter(center_point) ==
    [x |-> center_point[1] * PosScale, y |-> center_point[2] * PosScale,
     vx |-> 0, vy |-> 0,
     a |-> 10 * CovScale, b |-> 0, c |-> 10000 * CovScale]

\* kf.predict(): x = F x, P = F P F' + Q with Q = diag(1, 1, 0.01, 0.01).
kf_predict(kf) ==
    [kf EXCEPT !.x = kf.x + kf.vx,
               !.y = kf.y + kf.vy,
               !.a = kf.a + 2 * kf.b + kf.c + CovScale,
               !.b = kf.b + kf.c,
               !.c = kf.c + CovScale \div 100]

\* kf.update(z) with the innovation (rx, ry) and the gains K1 (position) and
\* K2 (velocity): x = x + K (z - x), P = (I - K H) P.
kf_gain(kf, R, rx, ry, K1, K2) ==
    [kf EXCEPT !.x  = kf.x + MulDiv(rx, K1, GainScale),
               !.y  = kf.y + MulDiv(ry, K1, GainScale),
               !.vx = kf.vx + MulDiv(rx, K2, GainScale),
               !.vy = kf.vy + MulDiv(ry, K2, GainScale),
               !.a  = MulDiv(R, K1, GainScale),
               !.b  = MulDiv(R, K2, GainScale),
               !.c  = kf.c - MulDiv(kf.b, K2, GainScale)]

\* kf.update(z): S = a + R with R = 10, K = [a / S, b / S].
kf_update(kf, z) ==
    kf_gain(kf, 10 * CovScale,
            z[1] * PosScale - kf.x, z[2] * PosScale - kf.y,
            MulDiv(kf.a, GainScale, kf.a + 10 * CovScale),
            MulDiv(kf.b, GainScale, kf.a + 10 * CovScale))

\* A Detection of the detector: the fields the tracker reads.
Detection(bbox, class_name, confidence) ==
    [bbox |-> bbox, class_name |-> class_name, confidence |-> confidence,
     center_point |-> <<Trunc(bbox[1] + bbox[3], 2), Trunc(bbox[2] + bbox[4], 2)>>,
     area |-> (bbox[3] - bbox[1]) * (bbox[4] - bbox[2])]

\* KalmanBoxTracker.__init__, given the value of KalmanBoxTracker.count
\* before the call.
KalmanBoxTracker(detection, class_name, counter) ==
    [id |-> counter + 1,
     kf |-> KalmanFilter(detection.center_point),
     class_name |-> class_name,
     confidence |-> detection.confidence,
     bbox |-> detection.bbox,
     area |-> detection.area,
     time_since_update |-> 0, hits |-> 1, hit_streak |-> 1, age |-> 1]

\* KalmanBoxTracker.update.
tracker_update(t, detection) ==
    [t EXCEPT !.time_since_update = 0,
              !.hits = t.hits + 1,
              !.hit_streak = t.hit_streak + 1,
              !.kf = kf_update(t.kf, detection.center_point),
              !.confidence = detection.confidence,
              !.bbox = detection.bbox,
              !.area = detection.area]

\* A predict that ends the streak at once.
tracker_predict_ending_streak(t) ==
    [t EXCEPT !.kf = kf_predict(t.kf),
              !.age = t.age + 1,
              !.hit_streak = 0,
              !.time_since_update = t.time_since_update + 1]

\* KalmanBoxTracker.predict: the tracker after the call.
tracker_predict(t) ==
    [t EXCEPT !.kf = kf_predict(t.kf),
              !.age = t.age + 1,
              !.hit_streak = IF t.time_since_update > 0 THEN 0 ELSE t.hit_streak,
              !.time_since_update = t.time_since_update + 1]

\* KalmanBoxTracker.get_state.
get_state(t) == <<Trunc(t.kf.x, PosScale), Trunc(t.kf.y, PosScale)>>

\* The intersection over the area of the first box.
IntersectionOverFirst(box1, box2) ==
    LET x1_i == Max(box1[1], box2[1])
        y1_i == Max(box1[2], box2[2])
        x2_i == Min(box1[3], box2[3])
        y2_i == Min(box1[4], box2[4])
    IN IF x2_i <= x1_i \/ y2_i <= y1_i THEN [num |-> 0, den |-> 1]
       ELSE [num |-> (x2_i - x1_i) * (y2_i - y1_i),
             den |-> (box1[3] - box1[1]) * (box1[4] - box1[2])]

\* ObjectTracker._calculate_iou, as the fraction num / den.
_calculate_iou(box1, box2) ==
    LET x1_i == Max(box1[1], box2[1])
        y1_i == Max(box1[2], box2[2])
        x2_i == Min(box1[3], box2[3])
        y2_i == Min(box1[4], box2[4])
        intersection == (x2_i - x1_i) * (y2_i - y1_i)
        area1 == (box1[3] - box1[1]) * (box1[4] - box1[2])
        area2 == (box2[3] - box2[1]) * (box2[4] - box2[2])
        union == area1 + area2 - intersection
    IN IF x2_i <= x1_i \/ y2_i <= y1_i THEN [num |-> 0, den |-> 1]
       ELSE IF union > 0 THEN [num |-> intersection, den |-> union]
       ELSE [num |-> 0, den |-> 1]

\* ObjectTracker._predict_box_from_center.
_predict_box_from_center(center, reference_box) ==
    LET w == reference_box[3] - reference_box[1]
        h == reference_box[4] - reference_box[2]
    IN <<Trunc(2 * center[1] - w, 2), Trunc(2 * center[2] - h, 2),
         Trunc(2 * center[1] + w, 2), Trunc(2 * center[2] + h, 2)>>

\* The cost matrix entry of _associate_detections_to_trackers for detection
\* and (predicted) tracker: 1.0 - iou.
Cost(detection, tracker) ==
    LET predicted_box == _predict_box_from_center(get_state(tracker), detection.bbox)
        iou == _calculate_iou(detection.bbox, predicted_box)
    IN CostScale - (iou.num * CostScale) \div iou.den

RECURSIVE TotalCost(_, _, _)
TotalCost(pairs, detections, trackers) ==
    IF pairs = {} THEN 0
    ELSE LET p == CHOOSE q \in pairs : TRUE
         IN Cost(detections[p[1]], trackers[p[2]])
            + TotalCost(pairs \ {p}, detections, trackers)

\* scipy.optimize.linear_sum_assignment on the cost matrix: the complete
\* assignments (min(#detections, #trackers) pairs of detection and tracker
\* indices, no index twice) of least total cost.  Which of several least-cost
\* assignments the solver returns is not specified.
linear_sum_assignment(detections, trackers) ==
    LET D == 1..Len(detections)
        T == 1..Len(trackers)
        Complete == { A \in SUBSET (D \X T) :
                        /\ Cardinality(A) = Min(Len(detections), Len(trackers))
                        /\ \A p, q \in A : p # q => p[1] # q[1] /\ p[2] # q[2] }
        totals == { TotalCost(A, detections, trackers) : A \in Complete }
        least == CHOOSE m \in totals : \A n \in totals : m <= n
    IN { A \in Complete : TotalCost(A, detections, trackers) = least }

\* "if cost_matrix[d, t] < (1.0 - self.iou_threshold)"; the threshold is in
\* whole percents.
Accepted(cost, iou_threshold) == cost * 100 < (100 - iou_threshold) * CostScale

\* An association that reports no unmatched detection when it has accepted
\* no match.
AssociateWithoutEmptyCase(detections, trackers, assignment, iou_threshold) ==
    LET matches == IF Len(trackers) = 0 THEN {}
                   ELSE { p \in assignment :
                            Accepted(Cost(detections[p[1]], trackers[p[2]]), iou_threshold) }
    IN [matches |-> matches,
        unmatched_detections |->
            SelectSeq([i \in 1..Len(detections) |-> i],
                      LAMBDA d : matches # {} /\ \A p \in matches : p[1] # d),
        unmatched_trackers |->
            SelectSeq([i \in 1..Len(trackers) |-> i],
                      LAMBDA t : \A p \in matches : p[2] # t)]

\* _associate_detections_to_trackers, given the solver's assignment: the
\* matches and the unmatched detection indices in increasing order.
_associate_detections_to_trackers(detections, trackers, assignment, iou_threshold) ==
    LET matches == IF Len(trackers) = 0 THEN {}
                   ELSE { p \in assignment :
                            Accepted(Cost(detections[p[1]], trackers[p[2]]), iou_threshold) }
    IN [matches |-> matches,
        unmatched_detections |->
            SelectSeq([i \in 1..Len(detections) |-> i],
                      LAMBDA d : \A p \in matches : p[1] # d),
        unmatched_trackers |->
            SelectSeq([i \in 1..Len(trackers) |-> i],
                      LAMBDA t : \A p \in matches : p[2] # t)]

\* "Keep only last 100 points"
MaxTrajectory == 100

\* Track.update_trajectory: the trajectory after the call.  A trajectory is
\* the sequence of its center points, one per update call.
update_trajectory(trajectory, center_point) ==
    LET appended == Append(trajectory, center_point)
    IN IF Len(appended) > MaxTrajectory
       THEN SubSeq(appended, Len(appended) - MaxTrajectory + 1, Len(appended))
       ELSE appended

\* Track.calculate_velocity: the velocity after the call, in pixels per update.
calculate_velocity(trajectory) ==
    IF Len(trajectory) < 2 THEN <<0, 0>>
    ELSE <<trajectory[Len(trajectory)][1] - trajectory[Len(trajectory) - 1][1],
           trajectory[Len(trajectory)][2] - trajectory[Len(trajectory) - 1][2]>>

\* A Track whose confirmation follows the current streak.
TrackByStreak(tracker, min_hits) ==
    [track_id |-> tracker.id,
     class_name |-> tracker.class_name,
     confidence |-> tracker.confidence,
     bbox |-> tracker.bbox,
     center_point |-> get_state(tracker),
     hits |-> tracker.hits,
     hit_streak |-> tracker.hit_streak,
     time_since_update |-> tracker.time_since_update,
     is_confirmed |-> tracker.hit_streak >= min_hits,
     trajectory |-> update_trajectory(<< >>, get_state(tracker)),
     velocity |-> calculate_velocity(update_trajectory(<< >>, get_state(tracker)))]

\* The Track object update builds for a tracker: a new object, whose
\* trajectory is the default empty list before update_trajectory is called.
Track(tracker, min_hits) ==
    [track_id |-> tracker.id,
     class_name |-> tracker.class_name,
     confidence |-> tracker.confidence,
     bbox |-> tracker.bbox,
     center_point |-> get_state(tracker),
     hits |-> tracker.hits,
     hit_streak |-> tracker.hit_streak,
     time_since_update |-> tracker.time_since_update,
     is_confirmed |-> tracker.hits >= min_hits,
     trajectory |-> update_trajectory(<< >>, get_state(tracker)),
     velocity |-> calculate_velocity(update_trajectory(<< >>, get_state(tracker)))]

\* ObjectTracker.__init__.
ObjectTracker(max_age, min_hits, iou_threshold) ==
    [max_age |-> max_age, min_hits |-> min_hits, iou_threshold |-> iou_threshold,
     trackers |-> [c \in CameraIds |-> << >>],
     frame_count |-> [c \in CameraIds |-> 0]]

\* update, "for tracker in trackers: tracker.predict()".
PredictAll(trackers) == [i \in 1..Len(trackers) |-> tracker_predict(trackers[i])]

\* update, "for det_idx, trk_idx in matched: trackers[trk_idx].update(...)".
UpdateMatched(trackers, detections, matches) ==
    [i \in 1..Len(trackers) |->
        IF \E p \in matches : p[2] = i
        THEN tracker_update(trackers[i],
                            detections[(CHOOSE p \in matches : p[2] = i)[1]])
        ELSE trackers[i]]

\* A spawn for every detection, matched or not.
CreateForAll(detections, unmatched_dets, counter) ==
    [j \in 1..Len(detections) |->
        KalmanBoxTracker(detections[j], detections[j].class_name, counter + j - 1)]

\* update, "for det_idx in unmatched_dets: ... KalmanBoxTracker(detection, ...)".
CreateUnmatched(detections, unmatched_dets, counter) ==
    [j \in 1..Len(unmatched_dets) |->
        KalmanBoxTracker(detections[unmatched_dets[j]],
                         detections[unmatched_dets[j]].class_name,
                         counter + j - 1)]

\* Removal as soon as the age limit is reached.
RemoveDeadAtLimit(trackers, max_age) ==
    SelectSeq(trackers, LAMBDA t : t.time_since_update < max_age)

\* update, "Remove dead trackers".
RemoveDead(trackers, max_age) ==
    SelectSeq(trackers, LAMBDA t : t.time_since_update <= max_age)

\* A conversion that returns the confirmed tracks only.
ConvertConfirmed(active_trackers, min_hits) ==
    LET reported == SelectSeq(active_trackers, LAMBDA t : t.hits >= min_hits)
    IN [i \in 1..Len(reported) |-> Track(reported[i], min_hits)]

\* update, "Convert to Track objects".
ConvertToTracks(active_trackers, min_hits) ==
    LET reported == SelectSeq(active_trackers,
                        LAMBDA t : t.hits >= min_hits \/ t.hit_streak >= 1)
    IN [i \in 1..Len(reported) |-> Track(reported[i], min_hits)]

\* An end of update that keeps one list of trackers for all cameras.
UpdateResultShared(ot, counter, camera_id, created, active_trackers) ==
    [tracker |-> [ot EXCEPT !.trackers = [c \in CameraIds |-> active_trackers],
                            !.frame_count[camera_id] = @ + 1],
     count |-> counter + Len(created),
     created |-> [j \in 1..Len(created) |-> created[j].id],
     tracks |-> ConvertToTracks(active_trackers, ot.min_hits)]

\* The end of update: the instance and the counter after the call, the
\* identifiers created and the list returned.
UpdateResult(ot, counter, camera_id, created, active_trackers) ==
    [tracker |-> [ot EXCEPT !.trackers[camera_id] = active_trackers,
                            !.frame_count[camera_id] = @ + 1],
     count |-> counter + Len(created),
     created |-> [j \in 1..Len(created) |-> created[j].id],
     tracks |-> ConvertToTracks(active_trackers, ot.min_hits)]

UpdateAssociated(ot, counter, detections, camera_id, predicted, assoc) ==
    UpdateResult(ot, counter, camera_id,
                 CreateUnmatched(detections, assoc.unmatched_detections, counter),
                 RemoveDead(UpdateMatched(predicted, detections, assoc.matches)
                            \o CreateUnmatched(detections, assoc.unmatched_detections,
                                               counter),
                            ot.max_age))

UpdatePredicted(ot, counter, detections, camera_id, assignment, predicted) ==
    UpdateAssociated(ot, counter, detections, camera_id, predicted,
                     _associate_detections_to_trackers(detections, predicted,
                                                       assignment, ot.iou_threshold))

\* ObjectTracker.update(detections, camera_id) on the instance ot, with
\* KalmanBoxTracker.count = counter before the call and the solver returning
\* assignment.
update(ot, counter, detections, camera_id, assignment) ==
    UpdatePredicted(ot, counter, detections, camera_id, assignment,
                    PredictAll(ot.trackers[camera_id]))

\* What one update call does to the tracker when the solver returns
\* assignment.
UpdateWith(inst, detections, camera_id, assignment) ==
    \E r \in {update(object_trackers[inst], count, detections, camera_id, assignment)} :
       /\ object_trackers' = [object_trackers EXCEPT ![inst] = r.tracker]
       /\ count' = r.count
       /\ last_tracks' = [last_tracks EXCEPT ![inst][camera_id] = r.tracks]
       /\ issued' = issued \o [j \in 1..Len(r.created) |->
                                   [instance |-> inst, id |-> r.created[j]]]
       /\ calls' = [calls EXCEPT ![inst] = @ + 1]

\* What one update call does to the tracker.
UpdateCall(inst, detections, camera_id) ==
    \E assignment \in linear_sum_assignment(detections,
                          PredictAll(object_trackers[inst].trackers[camera_id])) :
       UpdateWith(inst, detections, camera_id, assignment)

\* The update call as a step of the program.
Update(inst, detections, camera_id) ==
    /\ UpdateCall(inst, detections, camera_id)
    /\ UNCHANGED otherThanTracker

\* A stop that also resets the class attribute.
TrackerStopResetsCount(inst) ==
    /\ object_trackers' = [object_trackers EXCEPT
            ![inst].trackers = [c \in CameraIds |-> << >>],
            ![inst].frame_count = [c \in CameraIds |-> 0]]
    /\ count' = 0
    /\ UNCHANGED <<last_tracks, issued, calls, scene>>
    /\ UNCHANGED otherThanTracker

\* ObjectTracker.stop.
TrackerStop(inst) ==
    /\ object_trackers' = [object_trackers EXCEPT
            ![inst].trackers = [c \in CameraIds |-> << >>],
            ![inst].frame_count = [c \in CameraIds |-> 0]]
    /\ UNCHANGED <<count, last_tracks, issued, calls, scene>>
    /\ UNCHANGED otherThanTracker

(***************************************************************************)
(* SmartCCTVSystem (src/src/main.py): the orchestration loop.              *)
(***************************************************************************)
\* SmartCCTVSystem.__init__, before start.  errors, handled and afterError are
\* history: the exceptions logged by _process_frame, the frames of each camera
\* whose detection succeeded, and whether a frame was processed after an error.
SmartCCTVSystem ==
    main = [pc |-> "idle", running |-> FALSE, frames |-> << >>, frame_count |-> 0,
            errors |-> 0, handled |-> [c \in CameraIds |-> 0], afterError |-> FALSE]

\* The steps of _process_frame at which the component it calls may raise.
Stages == {"detect", "track", "distance", "evaluate", "log"}

\* An exception that no handler catches: it ends the loop.
OnErrorFatal(m) == [m EXCEPT !.pc = "terminated"]

\* "except Exception as e: logger.error(...)" of _process_frame.
OnError(m) == [m EXCEPT !.errors = @ + 1]

\* SmartCCTVSystem.start up to the loop.
system_start ==
    /\ main.pc = "idle"
    /\ main' = [main EXCEPT !.pc = "loop", !.running = TRUE]
    /\ UNCHANGED <<trackerVars, otherThanPipeline>>

\* What camera_manager.get_frames() may return: at most one frame per camera,
\* in the order of the cameras.
PulledFrames ==
    { << >>, <<[camera_id |-> "cam1"]>>, <<[camera_id |-> "cam2"]>>,
      <<[camera_id |-> "cam1"], [camera_id |-> "cam2"]>> }

\* "while self.running:", "frames = self.camera_manager.get_frames()" and
\* "if not frames: time.sleep(0.1); continue".
main_get_frames ==
    /\ main.pc = "loop"
    /\ IF ~main.running
       THEN main' = [main EXCEPT !.pc = "returned"]
       ELSE \E frames \in PulledFrames :
              /\ main.frame_count + Len(frames) <= MaxPulled
              /\ main' = [main EXCEPT !.frames = frames,
                                      !.pc = IF Len(frames) > 0 THEN "frames" ELSE "loop"]
    /\ UNCHANGED <<trackerVars, otherThanPipeline>>

\* The loop "for frame in frames:" after one frame.
NextFrame(m, error) ==
    [m EXCEPT !.frames = Tail(@), !.frame_count = @ + 1,
              !.afterError = @ \/ (m.errors > 0 /\ ~error),
              !.pc = IF m.pc # "frames" THEN m.pc
                     ELSE IF Len(m.frames) > 1 THEN "frames" ELSE "loop"]

\* tracker.update left by an exception of the assignment solver: the trackers
\* of the camera were predicted and nothing else was done.
UpdateRaises(inst, camera_id) ==
    /\ object_trackers' = [object_trackers EXCEPT
            ![inst].trackers[camera_id] = PredictAll(@),
            ![inst].frame_count[camera_id] = @ + 1]
    /\ UNCHANGED <<count, last_tracks, issued, calls>>

\* _process_frame(frame) and "self.frame_count += 1".  detections is what the
\* detector returns for the frame, fault the step that raises (None: none).
_process_frame(frame, detections, fault) ==
    IF fault = "detect"
    THEN /\ main' = NextFrame(OnError(main), TRUE)
         /\ UNCHANGED <<count, object_trackers, last_tracks, issued, calls>>
    ELSE IF Len(detections) = 0
    THEN /\ main' = NextFrame([main EXCEPT !.handled[frame.camera_id] = @ + 1], FALSE)
         /\ UNCHANGED <<count, object_trackers, last_tracks, issued, calls>>
    ELSE IF fault = "track"
    THEN /\ main' = NextFrame(OnError([main EXCEPT !.handled[frame.camera_id] = @ + 1]),
                              TRUE)
         /\ UpdateRaises("main", frame.camera_id)
    ELSE /\ UpdateCall("main", detections, frame.camera_id)
         /\ main' = IF fault = None \/ Len(last_tracks'["main"][frame.camera_id]) = 0
                    THEN NextFrame([main EXCEPT !.handled[frame.camera_id] = @ + 1], FALSE)
                    ELSE NextFrame(OnError([main EXCEPT !.handled[frame.camera_id] = @ + 1]),
                                   TRUE)

(***************************************************************************)
(* Specifications.                                                         *)
(***************************************************************************)
\* AlertManager.__init__ with one of the rule sets.
AlertManager(config) ==
    /\ rules = config
    /\ recent_alerts = << >>
    /\ triggers = << >>
    /\ exec = << >>
    /\ lock = None
    /\ evaluator = Returned_evaluate
    /\ admin = [pc |-> "idle", result |-> << >>]

\* CameraManager.__init__ with the cameras ids; the orchestration thread is
\* about to poll the first camera.
CameraManager(ids) ==
    /\ streams = [c \in ids |-> CameraStream(c)]
    /\ thread = [c \in ids |-> "idle"]
    /\ callers = [k \in {"main", "other"} |->
                    IF k = "main" THEN [cam |-> CameraOrder[1], phase |-> "check"]
                    ELSE [cam |-> None, phase |-> "idle"]]
    /\ readBetween = [c \in ids |-> FALSE]
    /\ dropped = [c \in ids |-> 0]
    /\ captured = [c \in ids |-> << >>]
    /\ delivered = [c \in ids |-> << >>]

\* The tracker instances of the program, each as ObjectTracker.__init__ leaves
\* it, in a process where no KalmanBoxTracker was created yet.
ObjectTrackers(instances, object) ==
    /\ scene = object
    /\ count = 0
    /\ object_trackers = instances
    /\ last_tracks = [i \in DOMAIN instances |-> [c \in CameraIds |-> << >>]]
    /\ issued = << >>
    /\ calls = [i \in DOMAIN instances |-> 0]

\* No pure method is being exercised on its own.
NoCall == probe = [method |-> None]

Flaky == {"ok", "fail"}
Reliable == {"ok"}

\* The capture thread of camera c, whose source answers within connects and
\* reads and delivers at most maxFrames frames.
CaptureThread(c, connects, reads, maxFrames) ==
    \/ CaptureLoop(c)
    \/ _connect(c, connects)
    \/ ReadFrame(c, reads, maxFrames)
    \/ PutFrame(c)

Start == \E c \in DOMAIN streams : start(c)

\* A camera whose source may fail at any connect or read.
Capture == \E c \in DOMAIN streams : CaptureThread(c, Flaky, Flaky, MaxFrames)

\* The same with a short stream.
CaptureShort == \E c \in DOMAIN streams : CaptureThread(c, Flaky, Flaky, ShortFrames)

\* cam1 with a source that may fail, cam2 with one that does not.
CaptureFlaky == CaptureThread("cam1", Flaky, Flaky, ShortFrames)
CaptureReliable == CaptureThread("cam2", Reliable, Reliable, ShortFrames)

Init == \E config \in AlertConfigs, ids \in SUBSET CameraIds :
            AlertManager(config) /\ SmartCCTVSystem /\ CameraManager(ids) /\ ObjectTrackers(<< >>, None) /\ NoCall

Next ==
    \/ Evaluate
    \/ EnableRule
    \/ DisableRule
    \/ AlertStop
    \/ Start
    \/ Capture
    \/ get_frames
    \/ OtherCaller

\* The whole system.
Spec == Init /\ [][Next]_vars

\* Detections of the tracker runs: two overlapping boxes and one apart.
DetectionPool ==
    { Detection(<<0, 0, 10, 10>>, "person", 80),
      Detection(<<2, 0, 12, 10>>, "person", 70),
      Detection(<<20, 0, 30, 10>>, "car", 60) }

\* What the detector may report for a frame of a camera: cam1 watches all
\* three objects and sees up to MaxDetections of them, cam2 watches the first.
DetectionLists(camera_id) ==
    LET visible == IF camera_id = "cam1" THEN DetectionPool
                   ELSE {Detection(<<0, 0, 10, 10>>, "person", 80)}
    IN { l \in UNION { [1..n -> visible] : n \in 0..MaxDetections } :
           \A i, j \in 1..Len(l) : i # j => l[i] # l[j] }

\* One tracker instance fed any detections on any camera, and stopped at any
\* time.
TrackerInit ==
    /\ AlertManager(<< >>) /\ SmartCCTVSystem /\ CameraManager({}) /\ NoCall
    /\ \E min_hits \in {2, 3} :
          ObjectTrackers([i \in {"A"} |-> ObjectTracker(1, min_hits, 30)], None)

TrackerUpdate ==
    \E inst \in DOMAIN object_trackers, camera_id \in CameraIds :
      \E detections \in DetectionLists(camera_id) :
        /\ calls[inst] < MaxUpdates
        /\ Update(inst, detections, camera_id)
        /\ UNCHANGED scene

Stop == \E inst \in DOMAIN object_trackers : TrackerStop(inst)

TrackerNext ==
    \/ TrackerUpdate
    \/ Stop

TrackerSpec == TrackerInit /\ [][TrackerNext]_vars

\* Two tracker instances in one process.  Instance A, configured with
\* max_age 30, min_hits 3 and iou_threshold 0.3, watches one object that moves
\* by a fixed small offset per frame; instance B is fed at any time.
SceneBoxes == {<<0, 0, 10, 10>>, <<20, 10, 28, 30>>}
SceneOffsets == {<<1, 0>>, <<0, 1>>, <<1, 1>>, <<2, 1>>, <<-1, 0>>, <<-2, -2>>}

TwoTrackerInit ==
    /\ AlertManager(<< >>) /\ SmartCCTVSystem /\ CameraManager({}) /\ NoCall
    /\ \E box \in SceneBoxes, offset \in SceneOffsets :
          /\ box[1] + LinearUpdates * offset[1] >= 0
          /\ box[2] + LinearUpdates * offset[2] >= 0
          /\ ObjectTrackers([i \in {"A", "B"} |->
                                IF i = "A" THEN ObjectTracker(30, 3, 30)
                                ELSE ObjectTracker(1, 2, 30)],
                            [box |-> box, offset |-> offset])

Moved(box, offset) ==
    <<box[1] + offset[1], box[2] + offset[2], box[3] + offset[1], box[4] + offset[2]>>

LinearFeed ==
    /\ calls["A"] < LinearUpdates
    /\ Update("A", <<Detection(scene.box, "person", 85)>>, "cam1")
    /\ scene' = [scene EXCEPT !.box = Moved(@, scene.offset)]

OtherFeed ==
    /\ calls["B"] < OtherUpdates
    /\ \E camera_id \in CameraIds :
         \E detections \in DetectionLists(camera_id) :
            Update("B", detections, camera_id)
    /\ UNCHANGED scene

TwoTrackerNext ==
    \/ LinearFeed
    \/ OtherFeed

TwoTrackerSpec == TwoTrackerInit /\ [][TwoTrackerNext]_vars

\* The alert engine alone (no camera configured).
(***************************************************************************)
(* _is_in_time_range on its own: one call per run, on a window and at a    *)
(* time of day drawn from the sets below.                                  *)
(***************************************************************************)
TimeStrings ==
    { <<"2", "2", ":", "0", "0">>, <<"0", "6", ":", "0", "0">>,
      <<"0", "9", ":", "3", "0">>, <<"1", "7", ":", "0", "0">>,
      <<"0", ":", "0">>, <<"2", "3", ":", "5", "9">>,
      <<"2", "4", ":", "0", "0">>, <<"0", "9", "3", "0">>,
      <<"1", "x", ":", "0", "0">> }

TimeRanges ==
    { <<s, e>> : s \in TimeStrings, e \in TimeStrings }
    \cup { << >>, << <<"2", "2", ":", "0", "0">> >> }

ClockReadings ==
    [hour : {0, 2, 6, 9, 12, 17, 22, 23}, minute : {0, 30, 59}, second : {0, 1, 59}]

TimeRangeInit ==
    /\ AlertManager(<< >>) /\ SmartCCTVSystem /\ CameraManager({}) /\ ObjectTrackers(<< >>, None)
    /\ \E time_range \in TimeRanges, current_time \in ClockReadings :
          probe = [method |-> "_is_in_time_range", time_range |-> time_range,
                   current_time |-> current_time, done |-> FALSE, result |-> FALSE]

IsInTimeRange ==
    /\ probe.method = "_is_in_time_range"
    /\ ~probe.done
    /\ probe' = [probe EXCEPT !.done = TRUE,
                              !.result = _is_in_time_range(probe.time_range,
                                                           probe.current_time)]
    /\ UNCHANGED otherThanProbe

TimeRangeNext == IsInTimeRange

TimeRangeSpec == TimeRangeInit /\ [][TimeRangeNext]_vars

(***************************************************************************)
(* _check_distance_condition on its own: one call per run, on a track and  *)
(* a condition drawn from the sets below.                                  *)
(***************************************************************************)
Entry(key, value) == [k \in {key} |-> value]

Absent == << >>

DistanceConditions ==
    { reference @@ operator @@ value :
        reference \in {Absent} \cup {Entry("reference", r) : r \in {"door", "gate", ""}},
        operator \in {Absent} \cup {Entry("operator", o) :
                          o \in {"less_than", "greater_than", "equal", "at_most"}},
        value \in {Absent} \cup {Entry("value", v) : v \in {100, 200, 210, 300}} }

DistanceInfos ==
    { Absent, Entry("distance_to_camera", 500),
      Entry("distance_to_reference", Absent),
      Entry("distance_to_reference", Entry("gate", 200)) }
    \cup { Entry("distance_to_camera", 500)
              @@ Entry("distance_to_reference", Entry("door", d)) :
            d \in {190, 191, 200, 209, 210, 300} }

AnnotatedTrack(distance_info) ==
    [track_id |-> 1, class_name |-> "person", confidence |-> 85,
     distance_info |-> distance_info]

DistanceInit ==
    /\ AlertManager(<< >>) /\ SmartCCTVSystem /\ CameraManager({}) /\ ObjectTrackers(<< >>, None)
    /\ \E distance_info \in DistanceInfos, distance_condition \in DistanceConditions :
          probe = [method |-> "_check_distance_condition",
                   track |-> AnnotatedTrack(distance_info),
                   distance_condition |-> distance_condition,
                   done |-> FALSE, result |-> FALSE]

CheckDistanceCondition ==
    /\ probe.method = "_check_distance_condition"
    /\ ~probe.done
    /\ probe' = [probe EXCEPT !.done = TRUE,
                              !.result = _check_distance_condition(
                                             probe.track, probe.distance_condition)]
    /\ UNCHANGED otherThanProbe

DistanceNext == CheckDistanceCondition

DistanceSpec == DistanceInit /\ [][DistanceNext]_vars

AlertInit == \E config \in AlertConfigs : AlertManager(config) /\ SmartCCTVSystem /\ CameraManager({}) /\ ObjectTrackers(<< >>, None) /\ NoCall

AlertNext ==
    \/ Evaluate
    \/ EnableRule
    \/ DisableRule
    \/ AlertStop

AlertSpec == AlertInit /\ [][AlertNext]_vars

(***************************************************************************)
(* The engine constructed from a configuration in which one rule entry     *)
(* carries a value of the wrong type or form.                              *)
(***************************************************************************)
\* cooldown: "60s"
BadCooldown(rule) == [rule EXCEPT !.malformed = {"cooldown"}]

\* confidence_threshold: "high"
BadThreshold(rule) == [rule EXCEPT !.conditions.malformed = {"confidence_threshold"}]

\* time_range: ["22:00", "6am"]
BadWindow(rule) ==
    [rule EXCEPT !.conditions.time_range =
                    << <<"2", "2", ":", "0", "0">>, <<"6", "a", "m">> >>]

\* time_range: ["22:00", "06:00"]
NightWindow(rule) ==
    [rule EXCEPT !.conditions.time_range =
                    << <<"2", "2", ":", "0", "0">>, <<"0", "6", ":", "0", "0">> >>]

LogOnly == << AlertAction("log", None, None) >>

MalformedConfigs ==
    { [n \in RuleNames |-> IF n = "intrusion" THEN i ELSE Vehicle(LogOnly, 4)] :
        i \in { BadCooldown(Intrusion(50, LogOnly)), BadThreshold(Intrusion(50, LogOnly)),
                BadWindow(Intrusion(50, LogOnly)), NightWindow(Intrusion(50, LogOnly)) } }
    \cup { [n \in RuleNames |-> IF n = "intrusion" THEN Intrusion(50, LogOnly)
                                 ELSE BadCooldown(Vehicle(LogOnly, 4))] }

MalformedInit ==
    \E config \in MalformedConfigs :
        AlertManager(config) /\ SmartCCTVSystem /\ CameraManager({}) /\ ObjectTrackers(<< >>, None) /\ NoCall

MalformedNext ==
    \/ Evaluate
    \/ EnableRule
    \/ DisableRule
    \/ AlertStop

MalformedSpec == MalformedInit /\ [][MalformedNext]_vars

(***************************************************************************)
(* The engine shared by the evaluation thread and an administrative        *)
(* thread.                                                                 *)
(***************************************************************************)
ThreadsInit ==
    \E config \in { c \in AlertConfigs : "intrusion" \in DOMAIN c } :
        AlertManager(config) /\ SmartCCTVSystem /\ CameraManager({}) /\ ObjectTrackers(<< >>, None) /\ NoCall

ThreadsNext ==
    \/ evaluate_call
    \/ evaluate_acquire
    \/ evaluate_enabled
    \/ evaluate_conditions
    \/ evaluate_trigger
    \/ evaluate_action
    \/ evaluate_store
    \/ evaluate_last_triggered
    \/ evaluate_release
    \/ admin_call
    \/ get_recent_alerts
    \/ stop
    \/ admin_enable_rule
    \/ admin_disable_rule

ThreadsSpec == ThreadsInit /\ [][ThreadsNext]_vars

\* One camera (no rule configured); the orchestration thread is the only
\* caller of get_frame.
CameraInit == AlertManager(<< >>) /\ SmartCCTVSystem /\ CameraManager({"cam1"}) /\ ObjectTrackers(<< >>, None) /\ NoCall

CameraNext ==
    \/ Start
    \/ Capture
    \/ get_frames

CameraSpec == CameraInit /\ [][CameraNext]_vars

\* The capture thread runs whenever it can take a step.
FairCameraSpec == CameraSpec /\ WF_vars(Capture)

\* Two cameras polled by the orchestration thread.
TwoCameraInit == AlertManager(<< >>) /\ SmartCCTVSystem /\ CameraManager(CameraIds) /\ ObjectTrackers(<< >>, None) /\ NoCall

TwoCameraNext ==
    \/ Start
    \/ CaptureFlaky
    \/ CaptureReliable
    \/ get_frames

TwoCameraSpec == TwoCameraInit /\ [][TwoCameraNext]_vars

\* One camera and two callers of get_frame on it.
SharedNext ==
    \/ Start
    \/ CaptureShort
    \/ get_frames
    \/ OtherCaller

SharedSpec == CameraInit /\ [][SharedNext]_vars

\* start is not called on a stream once stop was.
StartRunning == callers["other"].phase = "idle" /\ Start

(***************************************************************************)
(* The orchestration loop with its tracker: every frame pulled goes        *)
(* through _process_frame, in which any step may raise.                    *)
(***************************************************************************)
PipelineInit ==
    /\ AlertManager(<< >>) /\ SmartCCTVSystem /\ CameraManager({}) /\ NoCall
    /\ ObjectTrackers([i \in {"main"} |-> ObjectTracker(1, 2, 30)], None)

\* What the detector may report for a frame: nothing, the person, and on
\* cam1 the person and the car.
FrameDetections(camera_id) ==
    { << >>, << Detection(<<0, 0, 10, 10>>, "person", 80) >> }
    \cup IF camera_id = "cam1"
         THEN { << Detection(<<0, 0, 10, 10>>, "person", 80),
                   Detection(<<20, 0, 30, 10>>, "car", 60) >> }
         ELSE {}

main_process_frame ==
    /\ main.pc = "frames"
    /\ \E detections \in FrameDetections(Head(main.frames).camera_id),
          fault \in Stages \cup {None} :
            _process_frame(Head(main.frames), detections, fault)
    /\ UNCHANGED <<scene, otherThanPipeline>>

\* SmartCCTVSystem.stop, from the signal handler: "self.running = False", the
\* components' stop and sys.exit(0).
system_stop ==
    /\ main.running
    /\ main' = [main EXCEPT !.running = FALSE, !.pc = "exited", !.frames = << >>]
    /\ object_trackers' = [i \in DOMAIN object_trackers |->
            [object_trackers[i] EXCEPT !.trackers = [c \in CameraIds |-> << >>],
                                       !.frame_count = [c \in CameraIds |-> 0]]]
    /\ UNCHANGED <<count, last_tracks, issued, calls, scene, otherThanPipeline>>

PipelineNext ==
    \/ system_start
    \/ main_get_frames
    \/ main_process_frame
    \/ system_stop

PipelineSpec == PipelineInit /\ [][PipelineNext]_vars

\* One camera, stopped at any moment by the thread that shuts the system down.
StopNext ==
    \/ StartRunning
    \/ CaptureShort
    \/ get_frames
    \/ StreamStop

StopSpec == CameraInit /\ [][StopNext]_vars

\* The ring buffer filling up: one rule without cooldown, evaluated once per
\* second on a matching track, until the buffer has overflowed MaxOverflow times.
RingInit ==
    /\ AlertManager([n \in {"vehicle"} |-> Vehicle(<< >>, 0)])
    /\ SmartCCTVSystem /\ CameraManager({})
    /\ ObjectTrackers(<< >>, None) /\ NoCall

EvaluateTick ==
    /\ Len(triggers) < MaxRecentAlerts + MaxOverflow
    /\ \E t \in TrackPool :
          evaluate(<<t>>, [camera_id |-> "cam1"], Epoch + Len(triggers), QuietEnv)

RingNext ==
    \/ EvaluateTick
    \/ AlertStop

RingSpec == RingInit /\ [][RingNext]_vars


(***************************************************************************)
(* _calculate_iou on its own: one call on a pair of boxes and one on the   *)
(* same boxes in the other order.  The corners are any coordinates, so a   *)
(* box may be empty or have its corners exchanged.                         *)
(***************************************************************************)
Boxes == (0..MaxCoord) \X (0..MaxCoord) \X (0..MaxCoord) \X (0..MaxCoord)

NotCalled == [num |-> -1, den |-> 1]

IoUInit ==
    /\ AlertManager(<< >>) /\ SmartCCTVSystem /\ CameraManager({}) /\ ObjectTrackers(<< >>, None)
    /\ \E box1 \in Boxes, box2 \in Boxes :
          probe = [method |-> "_calculate_iou", box1 |-> box1, box2 |-> box2,
                   result |-> NotCalled, reversed |-> NotCalled]

\* self._calculate_iou(box1, box2)
CalculateIoU ==
    /\ probe.method = "_calculate_iou"
    /\ probe.result = NotCalled
    /\ probe' = [probe EXCEPT !.result = _calculate_iou(probe.box1, probe.box2)]
    /\ UNCHANGED otherThanProbe

\* self._calculate_iou(box2, box1)
CalculateIoUReversed ==
    /\ probe.method = "_calculate_iou"
    /\ probe.reversed = NotCalled
    /\ probe' = [probe EXCEPT !.reversed = _calculate_iou(probe.box2, probe.box1)]
    /\ UNCHANGED otherThanProbe

IoUNext == CalculateIoU \/ CalculateIoUReversed

IoUSpec == IoUInit /\ [][IoUNext]_vars


(***************************************************************************)
(* One tracker (max_age 1 or 2, min_hits 2 or 3, iou_threshold 0.5) on one *)
(* camera, fed a person that stays, moves right by a third of its width    *)
(* (IoU 0.5 with where it was) or is reported as a car, and a second       *)
(* person far away, or is reported twice as wide.  probe records the last  *)
(* update call: its detections, its cost matrix, the trackers before the   *)
(* call and after their predict, the solver's assignment, what the         *)
(* association made of it and the list the call before returned.  The      *)
(* threshold 0.5 and the costs of these boxes are binary fractions or far  *)
(* from the bound, so the float32 matrix entry compares with the bound as  *)
(* the exact numbers do.                                                   *)
(***************************************************************************)
CycleDetections ==
    { << >>,
      << Detection(<<0, 0, 12, 10>>, "person", 80) >>,
      << Detection(<<4, 0, 16, 10>>, "person", 70) >>,
      << Detection(<<2, 0, 14, 10>>, "car", 60) >>,
      << Detection(<<40, 0, 52, 10>>, "person", 90) >>,
      << Detection(<<0, 0, 24, 10>>, "person", 85) >>,
      << Detection(<<0, 0, 12, 10>>, "person", 80),
         Detection(<<40, 0, 52, 10>>, "person", 90) >> }

CycleInit ==
    /\ AlertManager(<< >>) /\ SmartCCTVSystem /\ CameraManager({})
    /\ \E max_age \in {1, 2}, min_hits \in {2, 3} :
          ObjectTrackers([i \in {"T"} |-> ObjectTracker(max_age, min_hits, 50)], None)
    /\ probe = [method |-> "update", detections |-> << >>, before |-> << >>,
                predicted |-> << >>, assignment |-> {},
                cost_matrix |-> << >>,
                association |-> _associate_detections_to_trackers(<< >>, << >>, {}, 50),
                previous |-> << >>]

\* tracks = self.tracker.update(detections, "cam1")
CycleUpdate ==
    /\ calls["T"] < MaxCycles
    /\ \E detections \in CycleDetections :
         \E predicted \in {PredictAll(object_trackers["T"].trackers["cam1"])} :
           \E assignment \in linear_sum_assignment(detections, predicted) :
             /\ UpdateWith("T", detections, "cam1", assignment)
             /\ probe' = [method |-> "update", detections |-> detections,
                          before |-> object_trackers["T"].trackers["cam1"],
                          predicted |-> predicted, assignment |-> assignment,
                          cost_matrix |-> [d \in 1..Len(detections) |->
                              [t \in 1..Len(predicted) |->
                                  Cost(detections[d], predicted[t])]],
                          association |-> _associate_detections_to_trackers(
                              detections, predicted, assignment,
                              object_trackers["T"].iou_threshold),
                          previous |-> last_tracks["T"]["cam1"]]
    /\ UNCHANGED <<scene, alertVars, cameraVars, threadVars, main>>

CycleSpec == CycleInit /\ [][CycleUpdate]_vars


(***************************************************************************)
(* One evaluate call on an engine with two rules without cooldown: the     *)
(* vehicle rule, and the intrusion rule in one of its forms (plain, with a *)
(* distance condition, with a zone, with both, with a time window that is  *)
(* valid, unparseable or of one entry).  The tracks carry the distance     *)
(* annotation of the calculator; probe records the call's arguments.       *)
(***************************************************************************)
Person(threshold) == AlertRule("intrusion", << >>, "person", threshold, LogOnly, 0)

\* distance_to_reference: {reference: door, operator: less_than, value: 3.0}
NearDoor(rule) ==
    [rule EXCEPT !.conditions.distance_to_reference =
        Entry("reference", "door") @@ Entry("operator", "less_than")
            @@ Entry("value", 300)]

\* zone_name: yard
InYard(rule) == [rule EXCEPT !.conditions.zone_name = "yard"]

\* time_range: ["22:00"]
OneEntryWindow(rule) ==
    [rule EXCEPT !.conditions.time_range = << <<"2", "2", ":", "0", "0">> >>]

ConditionConfigs ==
    { [n \in RuleNames |-> IF n = "intrusion" THEN i
                           ELSE AlertRule("vehicle", << >>, "car", 50, LogOnly, 0)] :
        i \in { Person(60), NearDoor(Person(60)), InYard(Person(60)),
                InYard(NearDoor(Person(60))), NightWindow(Person(60)),
                BadWindow(Person(60)), OneEntryWindow(Person(60)) } }

DoorAt(distance) == Entry("distance_to_reference", Entry("door", distance))

ConditionTrackPool ==
    { [track_id |-> 1, class_name |-> "person", confidence |-> 90,
       distance_info |-> DoorAt(200)],
      [track_id |-> 2, class_name |-> "person", confidence |-> 50,
       distance_info |-> DoorAt(100)],
      [track_id |-> 3, class_name |-> "person", confidence |-> 60,
       distance_info |-> DoorAt(400)],
      [track_id |-> 4, class_name |-> "person", confidence |-> 70,
       distance_info |-> Absent],
      [track_id |-> 5, class_name |-> "car", confidence |-> 80,
       distance_info |-> DoorAt(100)] }

ConditionTrackLists ==
    UNION { { l \in [1..n -> ConditionTrackPool] :
                \A i, j \in 1..n : i # j => l[i].track_id # l[j].track_id }
            : n \in 0..MaxTracks }

ConditionInit ==
    /\ SmartCCTVSystem /\ CameraManager({}) /\ ObjectTrackers(<< >>, None)
    /\ \E config \in ConditionConfigs : AlertManager(config)
    /\ probe = [method |-> "evaluate", done |-> FALSE, tracks |-> << >>,
                frame |-> [camera_id |-> None], current_time |-> Epoch]

\* self.alert_manager.evaluate(tracks, frame)
CheckedEvaluate ==
    /\ probe.method = "evaluate"
    /\ ~probe.done
    /\ \E current_time \in Times, frame \in Frames, tracks \in ConditionTrackLists :
          /\ evaluate_body(tracks, frame, current_time, QuietEnv)
          /\ probe' = [method |-> "evaluate", done |-> TRUE, tracks |-> tracks,
                       frame |-> frame, current_time |-> current_time]
    /\ UNCHANGED <<cameraVars, trackerVars, threadVars, main>>

ConditionSpec == ConditionInit /\ [][CheckedEvaluate]_vars


(***************************************************************************)
(* get_recent_alerts(limit) on an engine that has triggered up to          *)
(* MaxAlerts events: two rules without cooldown, evaluated once per second *)
(* on one track, then one call with a limit in 0..MaxLimit, recorded in    *)
(* probe.                                                                  *)
(***************************************************************************)
RecentInit ==
    /\ AlertManager([n \in RuleNames |->
            IF n = "intrusion" THEN Person(50)
            ELSE AlertRule("vehicle", << >>, "car", 50, LogOnly, 0)])
    /\ SmartCCTVSystem /\ CameraManager({}) /\ ObjectTrackers(<< >>, None)
    /\ probe = [method |-> "get_recent_alerts", done |-> FALSE, limit |-> 0,
                result |-> << >>]

RecentTick ==
    /\ ~probe.done
    /\ Len(triggers) < MaxAlerts
    /\ \E t \in TrackPool :
          evaluate(<<t>>, [camera_id |-> "cam1"], Epoch + Len(triggers), QuietEnv)

\* alert_manager.get_recent_alerts(limit)
GetRecentAlerts ==
    /\ probe.method = "get_recent_alerts"
    /\ ~probe.done
    /\ \E limit \in 0..MaxLimit :
          probe' = [probe EXCEPT !.done = TRUE, !.limit = limit,
                                 !.result = LastAlerts(limit)]
    /\ UNCHANGED otherThanProbe

RecentNext ==
    \/ RecentTick
    \/ GetRecentAlerts

RecentSpec == RecentInit /\ [][RecentNext]_vars

(***************************************************************************)
(* Properties of the alert engine.                                         *)
(***************************************************************************)
TriggersOf(r) == SelectSeq(triggers, LAMBDA x : x.rule = r)

\* The engine after evaluate(tracks, frame) at current_time under env.
Evaluated(tracks, frame, current_time, env) ==
    EvaluateFrom(1, EngineState, current_time, tracks, frame, env)

Matching(rule, tracks, frame) ==
    { i \in 1..Len(tracks) :
        _track_matches_conditions(tracks[i], rule.conditions, frame.camera_id) }

\* C1: a rule fires at most once per cooldown window: two triggers of the same
\* rule, whatever calls and tracks produced them, are never less than the
\* rule's cooldown apart (the later one is not inside the window of the
\* earlier one).
C1_OncePerCooldown ==
    \A i, j \in 1..Len(triggers) :
        (i < j /\ triggers[i].rule = triggers[j].rule)
            => ~(triggers[j].time - triggers[i].time < triggers[i].cooldown)

\* A rule has fired, and a call inside its cooldown with two matching tracks
\* leaves it untriggered.
C1_Witness ==
    \E r \in DOMAIN rules, t \in Times, frame \in Frames, tracks \in TrackLists :
        /\ rules[r].enabled
        /\ Len(TriggersOf(r)) = 1
        /\ t - Last(TriggersOf(r)).time < rules[r].cooldown
        /\ t > Last(TriggersOf(r)).time
        /\ _evaluate_rule(rules[r], tracks, frame, TimeOfDay(t))
        /\ Cardinality(Matching(rules[r], tracks, frame)) >= 2
        /\ Evaluated(tracks, frame, t, QuietEnv).triggers = triggers

\* C2: in every reachable state, an evaluate call at a time t with
\* t - last_triggered >= cooldown, on an enabled rule whose conditions a track
\* of the call meets, triggers the rule: last_triggered becomes t and a new
\* event of the rule, stamped t, is appended.
C2_EligibleAfterCooldown ==
    \A r \in DOMAIN rules, t \in Times, frame \in Frames, tracks \in TrackLists :
        (/\ rules[r].enabled
         /\ t - rules[r].last_triggered >= rules[r].cooldown
         /\ _evaluate_rule(rules[r], tracks, frame, TimeOfDay(t)))
        => \A env \in UsedEnvs :
              LET st == Evaluated(tracks, frame, t, env) IN
              /\ st.rules[r].last_triggered = t
              /\ \E i \in (Len(recent_alerts) + 1)..Len(st.recent_alerts) :
                    /\ st.recent_alerts[i].rule_name = r
                    /\ st.recent_alerts[i].timestamp = t
                    /\ st.recent_alerts[i].camera_id = frame.camera_id

\* A rule has fired a second time, exactly one cooldown after the first.
C2_Witness ==
    \E r \in DOMAIN rules :
        /\ Len(TriggersOf(r)) = 2
        /\ TriggersOf(r)[2].time - TriggersOf(r)[1].time = rules[r].cooldown
        /\ Len(SelectSeq(recent_alerts, LAMBDA e : e.rule_name = r)) = 2

\* C3: once a rule has fired, its last_triggered is the evaluation time of
\* its latest trigger, whatever the actions of that trigger did (all failed,
\* or there were none).
C3_LastTriggeredAlwaysSet ==
    \A r \in DOMAIN rules :
        TriggersOf(r) # << >> => rules[r].last_triggered = Last(TriggersOf(r)).time

\* A rule with actions has fired, every action failed, and last_triggered is
\* the time of that trigger.
C3_Witness ==
    \E r \in DOMAIN rules :
        /\ triggers # << >>
        /\ Last(triggers).rule = r
        /\ rules[r].actions # << >>
        /\ Len(exec) = Len(rules[r].actions)
        /\ \A i \in 1..Len(exec) : ~exec[i].success
        /\ Last(recent_alerts).triggered_actions = << >>
        /\ rules[r].last_triggered = Last(triggers).time

\* C4: the latest trigger attempted every action of its rule exactly once, in
\* the configured order, and its event lists exactly the kinds of the actions
\* that succeeded, in that order.
SucceededKinds(log) ==
    LET ok == SelectSeq(log, LAMBDA a : a.success)
    IN [i \in 1..Len(ok) |-> ok[i].action_type]

C4_EveryActionAttempted ==
    (triggers # << >> /\ Last(triggers).rule \in DOMAIN rules)
    => LET actions == rules[Last(triggers).rule].actions IN
       /\ Len(exec) = Len(actions)
       /\ \A i \in 1..Len(exec) :
             /\ exec[i].index = i
             /\ exec[i].action_type = actions[i].action_type
       /\ recent_alerts # << >>
       /\ Last(recent_alerts).rule_name = Last(triggers).rule
       /\ Last(recent_alerts).triggered_actions = SucceededKinds(exec)

\* The first action of the latest trigger failed and the later ones ran and
\* succeeded.
C4_Witness ==
    /\ Len(exec) = 3
    /\ ~exec[1].success
    /\ exec[2].success
    /\ exec[3].success
    /\ recent_alerts # << >>
    /\ Last(recent_alerts).triggered_actions = <<"audio_alert", "log">>

\* C5: the buffer never holds more than 1000 events, and while the engine runs
\* it holds the latest events in trigger order: the oldest is the one evicted.
C5_RingBuffer ==
    /\ Len(recent_alerts) <= MaxRecentAlerts
    /\ DOMAIN rules # {} =>
          /\ Len(recent_alerts) = Min(Len(triggers), MaxRecentAlerts)
          /\ \A i \in 1..Len(recent_alerts) :
                LET t == triggers[Len(triggers) - Len(recent_alerts) + i] IN
                /\ recent_alerts[i].timestamp = t.time
                /\ recent_alerts[i].rule_name = t.rule

\* More than 1000 events were appended; the buffer is full and its first event
\* is no longer the first one triggered.
C5_Witness ==
    /\ Len(triggers) = MaxRecentAlerts + 2
    /\ Len(recent_alerts) = MaxRecentAlerts
    /\ recent_alerts[1].timestamp = triggers[3].time
    /\ recent_alerts[1].timestamp # triggers[1].time

(***************************************************************************)
(* Properties of the capture pipeline.                                     *)
(***************************************************************************)
\* The terminal state: _reconnect gave up and cleared running.
Failed(c) ==
    /\ ~streams[c].running
    /\ streams[c].reconnect_attempts >= streams[c].max_reconnect_attempts

\* The source of camera c has delivered a frame.
SourceSeen(c) ==
    \/ streams[c].frame_number > 0
    \/ dropped[c] > 0
    \/ thread[c] = "put"

\* C6: a camera's buffer never holds more than 10 frames, the capture thread
\* about to insert a frame can always complete the insert, and an insert on a
\* full buffer leaves the buffered frames and the frame counter as they were.
C6_Bounded ==
    \A c \in DOMAIN streams :
        /\ Len(streams[c].frame_queue) <= QueueMaxSize
        /\ thread[c] = "put" => ENABLED PutFrame(c)

C6_DropKeepsBuffer ==
    \A c \in DOMAIN streams :
        (/\ thread[c] = "put"
         /\ thread'[c] # "put"
         /\ Len(streams[c].frame_queue) = QueueMaxSize)
        => /\ streams'[c].frame_queue = streams[c].frame_queue
           /\ streams'[c].frame_number = streams[c].frame_number
           /\ dropped'[c] = dropped[c] + 1

C6_Backpressure == [](C6_Bounded) /\ [][C6_DropKeepsBuffer]_vars

\* A frame was dropped on a full buffer, which still holds the ten frames
\* enqueued before it.
C6_Witness ==
    /\ dropped["cam1"] = 1
    /\ Len(streams["cam1"].frame_queue) = QueueMaxSize
    /\ streams["cam1"].frame_queue[1].frame_number = 0
    /\ streams["cam1"].frame_number = QueueMaxSize
    /\ thread["cam1"] = "loop"

\* C7: no caller of get_frame ever waits: a caller that has seen the buffer
\* non-empty finds a frame when it takes one.
C7_GetFrameNeverWaits ==
    \A k \in DOMAIN callers :
        callers[k].phase = "get" => streams[callers[k].cam].frame_queue # << >>

\* C8: a camera is in the failed state only after max_reconnect_attempts
\* consecutive reconnect attempts: no frame was read between the attempts
\* that were counted.
C8_ConsecutiveAttempts ==
    \A c \in DOMAIN streams : Failed(c) => ~readBetween[c]

\* C9: a started camera whose source never delivers a frame eventually fails
\* and its capture loop ends.
C9_BoundedRetry ==
    (thread["cam1"] = "loop") ~> (thread["cam1"] = "exit" \/ SourceSeen("cam1"))

\* C10: a failed camera stays failed, enqueues nothing more and is inactive at
\* every time; meanwhile the orchestration thread can always go on polling,
\* every other capture thread that is not waiting for its source can take its
\* next step, and active_count counts exactly the other active cameras.
C10_FailedState ==
    \A c \in DOMAIN streams :
        Failed(c) =>
            /\ \A now \in QueryTimes :
                  /\ ~is_active(c, now)
                  /\ active_count(now) =
                        Cardinality({d \in DOMAIN streams \ {c} : is_active(d, now)})
            /\ ENABLED get_frames
            /\ \A d \in DOMAIN streams \ {c} :
                  thread[d] \in {"loop", "connect", "put"}
                    => ENABLED CaptureThread(d, Reliable, Reliable, ShortFrames)

C10_FailedStep ==
    \A c \in DOMAIN streams :
        Failed(c) =>
            /\ Failed(c)'
            /\ streams'[c].frame_number = streams[c].frame_number
            /\ streams'[c].frame_queue \in
                    {streams[c].frame_queue} \cup
                    (IF streams[c].frame_queue = << >> THEN {}
                     ELSE {Tail(streams[c].frame_queue)})

C10_FailedCameraIsolated == [](C10_FailedState) /\ [][C10_FailedStep]_vars

\* cam1 has failed after enqueuing a frame, which was delivered; cam2 is
\* active, has enqueued a frame and is about to enqueue another.
C10_Witness ==
    /\ Failed("cam1")
    /\ thread["cam1"] = "exit"
    /\ streams["cam1"].frame_number = 1
    /\ streams["cam1"].frame_queue = << >>
    /\ streams["cam2"].frame_number = 1
    /\ thread["cam2"] = "put"
    /\ is_active("cam2", Epoch + 1)
    /\ active_count(Epoch + 1) = 1

\* a is a subsequence of b, in the same order.
RECURSIVE IsSubsequence(_, _)
IsSubsequence(a, b) ==
    IF a = << >> THEN TRUE
    ELSE IF b = << >> THEN FALSE
    ELSE IF Head(a) = Head(b) THEN IsSubsequence(Tail(a), Tail(b))
    ELSE IsSubsequence(a, Tail(b))

ImagesOf(frames) == [i \in 1..Len(frames) |-> frames[i].image]

IssuedTo(inst) == SelectSeq(issued, LAMBDA x : x.instance = inst)

\* The trackers of an instance that are alive, over all its cameras.
LiveIds(inst, camera_id) ==
    { object_trackers[inst].trackers[camera_id][i].id :
        i \in 1..Len(object_trackers[inst].trackers[camera_id]) }

\* C12: identifiers are given out in strictly increasing order, so none is
\* given twice, and every live tracker carries an identifier that was given
\* out once, to it alone.
C12_IdsIncreasing ==
    /\ \A i, j \in 1..Len(issued) : i < j => issued[i].id < issued[j].id
    /\ \A inst \in DOMAIN object_trackers :
          /\ \A c \in CameraIds :
                LET ts == object_trackers[inst].trackers[c] IN
                /\ \A i \in 1..Len(ts) :
                      \E k \in 1..Len(issued) :
                          issued[k] = [instance |-> inst, id |-> ts[i].id]
                /\ \A i, j \in 1..Len(ts) : i # j => ts[i].id # ts[j].id
          /\ LiveIds(inst, "cam1") \cap LiveIds(inst, "cam2") = {}

\* Three identifiers were given out; the tracks of the first two are gone
\* (pruned or cleared by stop) and the third one is alive on cam1.
C12_Witness ==
    /\ Len(issued) = 3
    /\ LiveIds("A", "cam1") = {issued[3].id}
    /\ LiveIds("A", "cam2") = {}
    /\ calls["A"] = MaxUpdates

\* C13: every tracker instance allocates identifiers of its own: the first
\* track an instance creates has id 1, whatever other instances created before.
C13_InstanceOwnedIds ==
    \A inst \in DOMAIN object_trackers :
        IssuedTo(inst) # << >> => IssuedTo(inst)[1].id = 1

\* The list update returned last for the camera, as the set of its tracks.
Returned(inst, camera_id) ==
    { last_tracks[inst][camera_id][i] : i \in 1..Len(last_tracks[inst][camera_id]) }

\* C14: a returned track is confirmed exactly when its hits have reached
\* min_hits, and a track returned confirmed is returned confirmed again by the
\* next update of its camera unless that update prunes it.
C14_ConfirmedState ==
    \A inst \in DOMAIN object_trackers : \A c \in CameraIds :
        \A t \in Returned(inst, c) :
            t.is_confirmed <=> t.hits >= object_trackers[inst].min_hits

C14_ConfirmedStep ==
    \A inst \in DOMAIN object_trackers : \A c \in CameraIds :
        \A t \in Returned(inst, c) :
            (/\ t.is_confirmed
             /\ object_trackers'[inst].frame_count[c]
                    = object_trackers[inst].frame_count[c] + 1
             /\ t.track_id \in LiveIds(inst, c)')
            => \E u \in Returned(inst, c)' :
                  /\ u.track_id = t.track_id
                  /\ u.is_confirmed
                  /\ u.hits >= t.hits

C14_ConfirmedUntilPruned == [](C14_ConfirmedState) /\ [][C14_ConfirmedStep]_vars

\* A confirmed track was returned by an update that did not match it: its
\* streak is broken off and it is still confirmed.
C14_Witness ==
    \E t \in Returned("A", "cam1") :
        /\ t.is_confirmed
        /\ t.time_since_update = 1
        /\ t.hits = object_trackers["A"].min_hits
        /\ t.track_id \in LiveIds("A", "cam1")

\* The linear-motion run so far: every update of instance A returned exactly
\* one track, the first one A created, tentative in the first two updates
\* and confirmed from the third.
LinearMotionTracked ==
    calls["A"] >= 1 =>
        /\ Len(last_tracks["A"]["cam1"]) = 1
        /\ Len(IssuedTo("A")) = 1
        /\ last_tracks["A"]["cam1"][1].track_id = IssuedTo("A")[1].id
        /\ last_tracks["A"]["cam1"][1].is_confirmed <=> calls["A"] >= 3

\* C15: on the fresh tracker A every update of the linear-motion run returns
\* exactly one track, with id 1, tentative in updates 1-2 and confirmed from
\* update 3 on.
C15_LinearMotion ==
    calls["A"] >= 1 =>
        /\ Len(last_tracks["A"]["cam1"]) = 1
        /\ last_tracks["A"]["cam1"][1].track_id = 1
        /\ last_tracks["A"]["cam1"][1].is_confirmed <=> calls["A"] >= 3

(***************************************************************************)
(* C16.  A window whose start is later than its end wraps past midnight:   *)
(* the window [22:00, 06:00] passes the time check at 23:00 and at 02:00   *)
(* and fails it at 12:00; a window whose start is not later than its end   *)
(* passes exactly at the times from start to end, both included.           *)
(***************************************************************************)
SecondOfDay(hour, minute, second) == (hour * 60 + minute) * 60 + second

Checked(time_range) ==
    /\ probe.method = "_is_in_time_range"
    /\ probe.done
    /\ probe.time_range = time_range

Overnight == << <<"2", "2", ":", "0", "0">>, <<"0", "6", ":", "0", "0">> >>
Daytime == << <<"0", "9", ":", "3", "0">>, <<"1", "7", ":", "0", "0">> >>
Midnight == << <<"0", ":", "0">>, <<"0", ":", "0">> >>

ClockSecond == SecondOfDay(probe.current_time.hour, probe.current_time.minute,
                           probe.current_time.second)

C16_TimeWindow ==
    /\ Checked(Overnight) =>
          (probe.result <=> (ClockSecond >= SecondOfDay(22, 0, 0)
                                \/ ClockSecond <= SecondOfDay(6, 0, 0)))
    /\ Checked(Overnight) /\ probe.current_time.hour \in {23, 2} => probe.result
    /\ Checked(Overnight) /\ probe.current_time.hour = 12 => ~probe.result
    /\ Checked(Daytime) =>
          (probe.result <=> (SecondOfDay(9, 30, 0) <= ClockSecond
                                /\ ClockSecond <= SecondOfDay(17, 0, 0)))
    /\ Checked(Midnight) => (probe.result <=> ClockSecond = 0)

C16_Witness ==
    /\ Checked(Overnight)
    /\ probe.current_time = [hour |-> 2, minute |-> 0, second |-> 0]
    /\ probe.result

(***************************************************************************)
(* C17.  Distance gating: a track annotated with distance 2.0 to "door"    *)
(* matches {door, less_than, 3.0} and does not match {door, less_than,     *)
(* 1.0}; less_than and greater_than are strict, equal holds within the     *)
(* tolerance 0.1, and a track without an annotation for the named          *)
(* reference, or an unknown operator, never matches.                       *)
(***************************************************************************)
DistanceChecked ==
    /\ probe.method = "_check_distance_condition"
    /\ probe.done
    /\ DOMAIN probe.distance_condition = {"reference", "operator", "value"}

Condition(reference, operator, value) ==
    Entry("reference", reference) @@ Entry("operator", operator) @@ Entry("value", value)

Annotated(reference) ==
    /\ "distance_to_reference" \in DOMAIN probe.track.distance_info
    /\ reference \in DOMAIN probe.track.distance_info["distance_to_reference"]

Annotation(reference) == probe.track.distance_info["distance_to_reference"][reference]

C17_DistanceGating ==
    DistanceChecked =>
      LET reference == probe.distance_condition["reference"]
          operator == probe.distance_condition["operator"]
          value == probe.distance_condition["value"]
      IN  /\ ~Annotated(reference) => ~probe.result
          /\ operator \notin {"less_than", "greater_than", "equal"} => ~probe.result
          /\ Annotated(reference) /\ operator = "less_than" =>
                (probe.result <=> Annotation(reference) < value)
          /\ Annotated(reference) /\ operator = "greater_than" =>
                (probe.result <=> Annotation(reference) > value)
          /\ Annotated(reference) /\ operator = "equal" =>
                (probe.result <=> (Annotation(reference) - value < 10
                                      /\ value - Annotation(reference) < 10))
          /\ Annotated("door") /\ Annotation("door") = 200 =>
                /\ probe.distance_condition = Condition("door", "less_than", 300)
                      => probe.result
                /\ probe.distance_condition = Condition("door", "less_than", 100)
                      => ~probe.result

C17_Witness ==
    /\ DistanceChecked
    /\ Annotated("door") /\ Annotation("door") = 200
    /\ probe.distance_condition = Condition("door", "less_than", 300)
    /\ probe.result

(***************************************************************************)
(* C18.  enable_rule and disable_rule are synchronised with evaluate by    *)
(* the engine's lock: once disable_rule(name) has returned, no alert of    *)
(* that rule is triggered until enable_rule(name) is called, however the   *)
(* administrative thread and the evaluation thread interleave.             *)
(* disable_rule is a single assignment, so it has returned, and the rule   *)
(* has not been enabled again, exactly while the rule's enabled is False.  *)
(***************************************************************************)
AlertTriggered(n) ==
    /\ Len(triggers') = Len(triggers) + 1
    /\ Last(triggers').rule = n

C18_NoAlertOnceDisabled ==
    [][\A n \in DOMAIN rules : AlertTriggered(n) => rules[n].enabled]_vars

(***************************************************************************)
(* C19.  The lock is never held while an action executes: while an action  *)
(* (a slow webhook) is running, a thread that has called get_recent_alerts *)
(* or stop can enter its with block.                                       *)
(***************************************************************************)
C19_NotBlockedDuringAction ==
    evaluator.pc = "action" /\ admin.pc \in LockingMethods =>
        ENABLED (get_recent_alerts \/ stop)

(***************************************************************************)
(* C20.  An error raised while one rule with malformed data (conditions,   *)
(* time window or cooldown) is evaluated stays with that rule: in that     *)
(* evaluate call the rule does not fire, and every other enabled rule is   *)
(* still evaluated and fires if it is eligible.                            *)
(***************************************************************************)
WindowRaises(time_range) ==
    /\ Len(time_range) = 2
    /\ ParseTime(time_range[1]).raised \/ ParseTime(time_range[2]).raised

Malformed(rule) ==
    \/ rule.malformed # {}
    \/ rule.conditions.malformed # {}
    \/ WindowRaises(rule.conditions.time_range)

FiredIn(st, r) ==
    \E i \in (Len(triggers) + 1)..Len(st.triggers) : st.triggers[i].rule = r

Eligible(r, t, tracks, frame) ==
    /\ rules[r].enabled
    /\ ~Malformed(rules[r])
    /\ t - rules[r].last_triggered >= rules[r].cooldown
    /\ _evaluate_rule(rules[r], tracks, frame, TimeOfDay(t))

ErrorConfined(kinds) ==
    \A t \in Times, frame \in Frames, tracks \in TrackLists :
      \A m \in DOMAIN rules :
        (/\ rules[m].enabled
         /\ Malformed(rules[m])
         /\ rules[m].malformed \cup rules[m].conditions.malformed \subseteq kinds
         /\ WindowRaises(rules[m].conditions.time_range) => "time_range" \in kinds)
        => LET st == Evaluated(tracks, frame, t, QuietEnv) IN
           /\ ~FiredIn(st, m)
           /\ \A r \in DOMAIN rules \ {m} :
                  Eligible(r, t, tracks, frame) => FiredIn(st, r)

C20_ErrorConfined == ErrorConfined({"cooldown", "confidence_threshold", "time_range"})

\* The part that holds: a malformed confidence threshold.
ConditionErrorConfined == ErrorConfined({"confidence_threshold"})

\* A malformed cooldown keeps the later rules from being evaluated.
CooldownErrorConfined == ErrorConfined({"cooldown"})

\* A malformed time window lets its rule fire.
WindowErrorConfined == ErrorConfined({"time_range"})

(***************************************************************************)
(* C21.  Once CameraStream.stop has returned, no capture handle is opened  *)
(* and no frame is enqueued, whatever the capture thread was doing when    *)
(* the join timed out, and the thread ends without an open handle.         *)
(***************************************************************************)
Stopped(c) ==
    /\ callers["other"].phase = "stopped"
    /\ callers["other"].cam = c

C21_NothingAfterStop ==
    [][\A c \in DOMAIN streams :
          Stopped(c) =>
            /\ streams'[c].cap = "Open" => streams[c].cap = "Open"
            /\ Len(streams'[c].frame_queue) <= Len(streams[c].frame_queue)
            /\ thread'[c] = "exit" => streams'[c].cap # "Open"]_vars

\* The parts of it, one at a time.
NoHandleOpenedAfterStop ==
    [][\A c \in DOMAIN streams :
          Stopped(c) /\ streams'[c].cap = "Open" => streams[c].cap = "Open"]_vars

NoFrameEnqueuedAfterStop ==
    [][\A c \in DOMAIN streams :
          Stopped(c) => Len(streams'[c].frame_queue) <= Len(streams[c].frame_queue)]_vars

(***************************************************************************)
(* C22.  No error raised while a frame is processed (detection, tracking,  *)
(* distance annotation, alert evaluation, event logging) ends the          *)
(* orchestration loop: while the system is running the loop is at the top  *)
(* of an iteration or inside one, and it can take its next step.           *)
(***************************************************************************)
C22_LoopSurvivesErrors ==
    main.running =>
        /\ main.pc \in {"loop", "frames"}
        /\ main.pc = "frames" => ENABLED main_process_frame
        /\ main.pc = "loop" /\ main.frame_count < MaxPulled => ENABLED main_get_frames

\* An error was logged and a later frame went through the whole of
\* _process_frame.
C22_Witness ==
    /\ main.running
    /\ main.errors > 0
    /\ main.afterError

(***************************************************************************)
(* C23.  The IoU of two boxes is 1.0 when they are the same box of         *)
(* positive area, 0.0 when they do not overlap (boxes that only touch at   *)
(* an edge included), and the same in both orders of the arguments.        *)
(***************************************************************************)
PositiveArea(box) == box[1] < box[3] /\ box[2] < box[4]

\* No point lies inside both boxes.
Apart(box1, box2) ==
    \/ box1[3] <= box2[1] \/ box2[3] <= box1[1]
    \/ box1[4] <= box2[2] \/ box2[4] <= box1[2]

SameFraction(p, q) == p.num * q.den = q.num * p.den

C23_IoU ==
    probe.method = "_calculate_iou" /\ probe.result # NotCalled =>
        /\ probe.box1 = probe.box2 /\ PositiveArea(probe.box1)
              => probe.result.num = probe.result.den
        /\ Apart(probe.box1, probe.box2) => probe.result.num = 0
        /\ probe.reversed # NotCalled => SameFraction(probe.result, probe.reversed)

\* Both orders were computed on two different boxes that overlap in part.
C23_Witness ==
    /\ probe.method = "_calculate_iou"
    /\ probe.result # NotCalled /\ probe.reversed # NotCalled
    /\ probe.box1 # probe.box2
    /\ 0 < probe.result.num /\ probe.result.num < probe.result.den

(***************************************************************************)
(* C24.  Every frame pulled from a camera leads to exactly one             *)
(* ObjectTracker.update call for that camera, also when the detector       *)
(* reports nothing for it: while the system runs, the tracker has made as  *)
(* many update calls for a camera as frames of that camera went through    *)
(* the detector.                                                           *)
(***************************************************************************)
C24_UpdatePerFrame ==
    main.running =>
        \A c \in CameraIds :
            object_trackers["main"].frame_count[c] = main.handled[c]

\* A tracked object has left the scene and its track has not aged: a frame
\* without detections was processed and the tracker still holds a track that
\* was updated in its last update call.
TrackNotAged ==
    /\ main.running
    /\ \E c \in CameraIds :
          /\ main.handled[c] > object_trackers["main"].frame_count[c]
          /\ \E i \in 1..Len(object_trackers["main"].trackers[c]) :
                object_trackers["main"].trackers[c][i].time_since_update = 0

(***************************************************************************)
(* C25.  After every update call no live track of the camera has           *)
(* time_since_update > max_age, and update removes a track exactly when    *)
(* the call leaves it unmatched for the (max_age + 1)-th time in a row:    *)
(* the track had time_since_update = max_age before the call and no        *)
(* detection of the call was matched to it.                                *)
(***************************************************************************)
\* The trackers the instance T holds for cam1 after the last call.
Live == object_trackers["T"].trackers["cam1"]

IsLive(id) == \E i \in 1..Len(Live) : Live[i].id = id

\* The tracker at index t before the last call took part in a match.
Matched(t) == \E p \in probe.association.matches : p[2] = t

C25_PrunedExactlyPastMaxAge ==
    /\ \A i \in 1..Len(Live) :
          Live[i].time_since_update <= object_trackers["T"].max_age
    /\ \A t \in 1..Len(probe.before) :
          ~IsLive(probe.before[t].id)
             <=> /\ probe.before[t].time_since_update = object_trackers["T"].max_age
                 /\ ~Matched(t)

\* The last call removed a track and kept another one that it had not
\* matched.
C25_Witness ==
    /\ \E t \in 1..Len(probe.before) : ~IsLive(probe.before[t].id)
    /\ \E t \in 1..Len(probe.before) : IsLive(probe.before[t].id) /\ ~Matched(t)

(***************************************************************************)
(* C26.  When a detection is matched to a track in an update, the track's  *)
(* bbox, confidence and class become those of the detection, its hits and  *)
(* hit_streak (as predict left it) each increase by 1, and its             *)
(* time_since_update becomes 0.                                            *)
(***************************************************************************)
\* The tracker after the last call that the match p updated.
UpdatedBy(p) ==
    Live[CHOOSE i \in 1..Len(Live) : Live[i].id = probe.predicted[p[2]].id]

\* All of it but the class.
MatchedCountsRefreshed ==
    \A p \in probe.association.matches :
        /\ IsLive(probe.predicted[p[2]].id)
        /\ UpdatedBy(p).bbox = probe.detections[p[1]].bbox
        /\ UpdatedBy(p).confidence = probe.detections[p[1]].confidence
        /\ UpdatedBy(p).hits = probe.predicted[p[2]].hits + 1
        /\ UpdatedBy(p).hit_streak = probe.predicted[p[2]].hit_streak + 1
        /\ UpdatedBy(p).time_since_update = 0

C26_MatchedTakesDetection ==
    /\ MatchedCountsRefreshed
    /\ \A p \in probe.association.matches :
          UpdatedBy(p).class_name = probe.detections[p[1]].class_name

\* A match was made after the track had missed an update.
MatchedAfterMiss ==
    \E p \in probe.association.matches : probe.before[p[2]].time_since_update = 1

(***************************************************************************)
(* C27.  The list update returns holds exactly the live tracks of the      *)
(* camera that are confirmed (hits >= min_hits) or have a nonzero hit      *)
(* streak, each once; a track spawned in the call is in the list the call  *)
(* returns.                                                                *)
(***************************************************************************)
ReturnedList == last_tracks["T"]["cam1"]

ReturnedIds == { ReturnedList[i].track_id : i \in 1..Len(ReturnedList) }

\* The tracks the last call created.
Spawned ==
    { Live[i].id : i \in { j \in 1..Len(Live) :
                             \A t \in 1..Len(probe.before) :
                                 probe.before[t].id # Live[j].id } }

PreviousTrajectory(id) ==
    IF \E j \in 1..Len(probe.previous) : probe.previous[j].track_id = id
    THEN probe.previous[CHOOSE j \in 1..Len(probe.previous) :
                            probe.previous[j].track_id = id].trajectory
    ELSE << >>

C28_TrajectoryAccumulates ==
    \A i \in 1..Len(ReturnedList) :
        /\ ReturnedList[i].trajectory
              = update_trajectory(PreviousTrajectory(ReturnedList[i].track_id),
                                  ReturnedList[i].center_point)
        /\ ReturnedList[i].velocity = calculate_velocity(ReturnedList[i].trajectory)

\* What is returned instead: the current center point alone and no velocity.
TrajectoryOnePoint ==
    \A i \in 1..Len(ReturnedList) :
        /\ ReturnedList[i].trajectory = << ReturnedList[i].center_point >>
        /\ ReturnedList[i].velocity = <<0, 0>>

\* A track that moved was returned by two calls in a row.
MovedTrackReturnedAgain ==
    \E i \in 1..Len(ReturnedList), j \in 1..Len(probe.previous) :
        /\ ReturnedList[i].track_id = probe.previous[j].track_id
        /\ ReturnedList[i].center_point # probe.previous[j].center_point

(***************************************************************************)
(* C29.  A proposed detection-track assignment is rejected exactly when    *)
(* its cost exceeds 1 - iou_threshold, that is when its IoU is below the   *)
(* threshold, so a pair whose IoU equals the threshold is accepted; a      *)
(* rejected pair is unmatched on both sides: the detection spawns a new    *)
(* track and the track is not updated in that cycle.                       *)
(***************************************************************************)
\* The IoU of the detection and the predicted box of the tracker the solver
\* paired it with, in the last call.
PairIoU(p) ==
    _calculate_iou(probe.detections[p[1]].bbox,
                   _predict_box_from_center(get_state(probe.predicted[p[2]]),
                                            probe.detections[p[1]].bbox))

BelowThreshold(p) ==
    PairIoU(p).num * 100 < object_trackers["T"].iou_threshold * PairIoU(p).den

AtThreshold(p) ==
    PairIoU(p).num * 100 = object_trackers["T"].iou_threshold * PairIoU(p).den

\* A rejected pair is unmatched on both sides.
RejectedUnmatched ==
    \A p \in probe.assignment \ probe.association.matches :
        /\ \E i \in 1..Len(Live) :
              /\ Live[i].id \in Spawned
              /\ Live[i].bbox = probe.detections[p[1]].bbox
              /\ Live[i].class_name = probe.detections[p[1]].class_name
        /\ \A i \in 1..Len(Live) :
              Live[i].id = probe.predicted[p[2]].id
                 => Live[i] = probe.predicted[p[2]]

C29_RejectedBelowThreshold ==
    /\ \A p \in probe.assignment :
          p \notin probe.association.matches <=> BelowThreshold(p)
    /\ RejectedUnmatched

\* What the comparison does: a pair is rejected when its IoU is below or
\* equal to the threshold.
RejectedAtOrBelowThreshold ==
    \A p \in probe.assignment :
        p \notin probe.association.matches <=> BelowThreshold(p) \/ AtThreshold(p)

\* Pairs were proposed with an IoU below, at and above the threshold.
ProposedBelow == \E p \in probe.assignment : BelowThreshold(p) /\ PairIoU(p).num > 0
ProposedAt == \E p \in probe.assignment : AtThreshold(p)
ProposedAbove ==
    \E p \in probe.assignment :
        ~BelowThreshold(p) /\ ~AtThreshold(p) /\ PairIoU(p).num < PairIoU(p).den

(***************************************************************************)
(* C30.  When the association accepts no match (no trackers, no            *)
(* detections, or every proposed pair rejected by the threshold), all      *)
(* detections and all trackers are unmatched: every detection spawns a new *)
(* track, no existing track is updated, and the call completes.            *)
(***************************************************************************)
\* No pair of a detection and a tracker of the last call was accepted.
NoneAccepted ==
    \A p \in probe.assignment : BelowThreshold(p) \/ AtThreshold(p)

C30_NoMatchAllUnmatched ==
    calls["T"] > 0 /\ NoneAccepted =>
        /\ object_trackers["T"].frame_count["cam1"] = calls["T"]
        /\ Cardinality(Spawned) = Len(probe.detections)
        /\ \A d \in 1..Len(probe.detections) :
              \E i \in 1..Len(Live) :
                  /\ Live[i].id \in Spawned
                  /\ Live[i].bbox = probe.detections[d].bbox
                  /\ Live[i].class_name = probe.detections[d].class_name
                  /\ Live[i].hits = 1
        /\ \A t \in 1..Len(probe.predicted) :
              \A i \in 1..Len(Live) :
                  Live[i].id = probe.predicted[t].id => Live[i] = probe.predicted[t]

\* The solver proposed pairs for two trackers and all were rejected.
C30_Witness ==
    /\ NoneAccepted
    /\ probe.assignment # {}
    /\ Len(probe.predicted) = 2
    /\ Spawned # {}

\* The other ways of accepting nothing: no trackers, and no detections while
\* there are trackers.
NoTrackers == calls["T"] > 0 /\ Len(probe.predicted) = 0 /\ Len(probe.detections) = 2

NoDetections == Len(probe.predicted) > 0 /\ Len(probe.detections) = 0

(***************************************************************************)
(* C31.  The association cost of a detection and a track is 1 - IoU of the *)
(* detection's bbox and the track's predicted box: the box centered on the *)
(* track's predicted center with the track's last known width and height   *)
(* (not the detection's).                                                  *)
(***************************************************************************)
\* 1 - IoU of two boxes, as a cost.
IoUCost(box1, box2) ==
    CostScale - (_calculate_iou(box1, box2).num * CostScale)
                    \div _calculate_iou(box1, box2).den

\* The box of the track's own size around its predicted center.
OwnSizeBox(t) == _predict_box_from_center(get_state(t), t.bbox)

C31_CostUsesTrackSize ==
    \A d \in 1..Len(probe.cost_matrix) : \A t \in 1..Len(probe.cost_matrix[d]) :
        probe.cost_matrix[d][t]
            = IoUCost(probe.detections[d].bbox, OwnSizeBox(probe.predicted[t]))

\* What the cost is instead: the predicted box has the size of the detection
\* it is compared with.
CostUsesDetectionSize ==
    \A d \in 1..Len(probe.cost_matrix) : \A t \in 1..Len(probe.cost_matrix[d]) :
        probe.cost_matrix[d][t]
            = IoUCost(probe.detections[d].bbox,
                      _predict_box_from_center(get_state(probe.predicted[t]),
                                               probe.detections[d].bbox))

\* A detection was compared with a track of another width.
OtherWidthCompared ==
    \E d \in 1..Len(probe.cost_matrix) : \E t \in 1..Len(probe.cost_matrix[d]) :
        probe.detections[d].bbox[3] - probe.detections[d].bbox[1]
            # probe.predicted[t].bbox[3] - probe.predicted[t].bbox[1]

(***************************************************************************)
(* C32.  In every update call each detection is either matched to exactly  *)
(* one existing track or spawns exactly one new track (tentative, with     *)
(* hits = 1), and no track is matched to more than one detection; so the   *)
(* camera's track count before pruning is the previous count plus the      *)
(* number of unmatched detections.                                         *)
(***************************************************************************)
\* The matches of the last call that involve detection d, and tracker t.
MatchesOfDetection(d) == { p \in probe.association.matches : p[1] = d }
MatchesOfTracker(t) == { p \in probe.association.matches : p[2] = t }

\* The tracks the last call created for the detection d.
SpawnedFor(d) ==
    { i \in 1..Len(Live) :
        /\ Live[i].id \in Spawned
        /\ Live[i].bbox = probe.detections[d].bbox
        /\ Live[i].class_name = probe.detections[d].class_name }

\* The tracks the last call removed.
Pruned ==
    { t \in 1..Len(probe.before) : ~IsLive(probe.before[t].id) }

C32_MatchedOrSpawned ==
    /\ \A d \in 1..Len(probe.detections) :
          \/ /\ Cardinality(MatchesOfDetection(d)) = 1
             /\ SpawnedFor(d) = {}
          \/ /\ MatchesOfDetection(d) = {}
             /\ Cardinality(SpawnedFor(d)) = 1
             /\ \A i \in SpawnedFor(d) :
                   /\ Live[i].hits = 1
                   /\ \E k \in 1..Len(ReturnedList) :
                         /\ ReturnedList[k].track_id = Live[i].id
                         /\ ~ReturnedList[k].is_confirmed
    /\ \A t \in 1..Len(probe.before) : Cardinality(MatchesOfTracker(t)) <= 1
    /\ Len(Live) + Cardinality(Pruned)
          = Len(probe.before) + Len(probe.detections)
              - Cardinality(probe.association.matches)

\* One detection of the last call was matched and the other spawned a track.
C32_Witness ==
    /\ Len(probe.detections) = 2
    /\ Cardinality(probe.association.matches) = 1
    /\ Cardinality(Spawned) = 1

(***************************************************************************)
(* C33.  ObjectTracker.update(detections, A) changes only camera A's       *)
(* state: in a step that is an update call for camera A, the trackers      *)
(* (with their hit counters), the frame count and the last returned list   *)
(* of every other camera B stay as they were.                              *)
(***************************************************************************)
\* The step is an update call of instance inst for camera a.
UpdateStep(inst, a) ==
    object_trackers'[inst].frame_count[a] = object_trackers[inst].frame_count[a] + 1

OtherCamerasUntouched ==
    \A inst \in DOMAIN object_trackers : \A a \in CameraIds :
        UpdateStep(inst, a) =>
            \A b \in CameraIds \ {a} :
                /\ object_trackers'[inst].trackers[b] = object_trackers[inst].trackers[b]
                /\ object_trackers'[inst].frame_count[b]
                      = object_trackers[inst].frame_count[b]
                /\ last_tracks'[inst][b] = last_tracks[inst][b]

C33_OnlyOwnCamera == [][OtherCamerasUntouched]_vars

\* cam2's only update created the first track of the process, and two updates
\* for cam1 followed while cam2 held it.
C33_Witness ==
    /\ main.running
    /\ object_trackers["main"].frame_count["cam2"] = 1
    /\ object_trackers["main"].frame_count["cam1"] = 2
    /\ Len(object_trackers["main"].trackers["cam2"]) = 1
    /\ object_trackers["main"].trackers["cam2"][1].id = 1
    /\ Len(object_trackers["main"].trackers["cam1"]) > 0

(***************************************************************************)
(* C34.  A rule fires on the first track, in list order, whose class is    *)
(* the rule's object class and whose confidence is >= the rule's threshold *)
(* (and which satisfies the distance condition when one is configured);    *)
(* the event records that track's id and the frame's camera id, and one    *)
(* evaluate call produces at most one event per rule.                      *)
(***************************************************************************)
\* The events the recorded call produced for the rule.
EventsOf(n) == SelectSeq(recent_alerts, LAMBDA ev : ev.rule_name = n)

\* The track satisfies what the rule asks of a track.
Satisfies(track, conditions) ==
    /\ track.class_name = conditions.object_class
    /\ track.confidence >= conditions.confidence_threshold
    /\ DOMAIN conditions.distance_to_reference # {}
          => _check_distance_condition(track, conditions.distance_to_reference)

\* The tracks of the recorded call that satisfy the rule, by index.
Satisfying(n) ==
    { i \in 1..Len(probe.tracks) : Satisfies(probe.tracks[i], rules[n].conditions) }

C34_FiresOnFirstMatch ==
    probe.method = "evaluate" /\ probe.done =>
        \A n \in DOMAIN rules :
            /\ Len(EventsOf(n)) <= 1
            /\ Len(EventsOf(n)) = 1 =>
                  /\ Satisfying(n) # {}
                  /\ \E i \in Satisfying(n) :
                        /\ \A j \in Satisfying(n) : i <= j
                        /\ EventsOf(n)[1].track_id = probe.tracks[i].track_id
                  /\ EventsOf(n)[1].camera_id = probe.frame.camera_id
            /\ Satisfying(n) # {} /\ Len(rules[n].conditions.time_range) = 0
                  => Len(EventsOf(n)) = 1

\* The rule with the distance condition fired on the second track of the
\* list, the first being a person that is too far from the door, and the
\* vehicle rule did not fire.
C34_Witness ==
    /\ probe.method = "evaluate" /\ probe.done
    /\ DOMAIN rules["intrusion"].conditions.distance_to_reference # {}
    /\ Len(probe.tracks) = 2
    /\ probe.tracks[1].track_id = 3
    /\ Len(EventsOf("intrusion")) = 1
    /\ EventsOf("intrusion")[1].track_id = probe.tracks[2].track_id
    /\ Len(EventsOf("vehicle")) = 0

(***************************************************************************)
(* C35.  A rule whose time_range is malformed (configured, and not exactly *)
(* two parseable HH:MM strings) is skipped for that cycle: it does not     *)
(* fire, whatever tracks are present.                                      *)
(***************************************************************************)
MalformedWindow(time_range) ==
    /\ Len(time_range) > 0
    /\ \/ Len(time_range) # 2
       \/ ParseTime(time_range[1]).raised
       \/ ParseTime(time_range[2]).raised

C35_MalformedWindowSkipped ==
    probe.method = "evaluate" /\ probe.done =>
        \A n \in DOMAIN rules :
            MalformedWindow(rules[n].conditions.time_range) => Len(EventsOf(n)) = 0

\* What happens instead: the rule fires as if it had no time window.
MalformedWindowIgnored ==
    probe.method = "evaluate" /\ probe.done =>
        \A n \in DOMAIN rules :
            MalformedWindow(rules[n].conditions.time_range)
                => (Len(EventsOf(n)) = 1 <=> Satisfying(n) # {})

\* A rule with an unparseable window fired, and so did one with a window of
\* one entry.
UnparseableWindowFired ==
    /\ probe.method = "evaluate" /\ probe.done
    /\ Len(rules["intrusion"].conditions.time_range) = 2
    /\ MalformedWindow(rules["intrusion"].conditions.time_range)
    /\ Len(EventsOf("intrusion")) = 1

OneEntryWindowFired ==
    /\ probe.method = "evaluate" /\ probe.done
    /\ Len(rules["intrusion"].conditions.time_range) = 1
    /\ Len(EventsOf("intrusion")) = 1

(***************************************************************************)
(* C36.  get_recent_alerts(limit) returns at most limit events, for every  *)
(* limit >= 0 (none for limit = 0), and they are the most recently         *)
(* triggered events in trigger order.                                      *)
(***************************************************************************)
\* The last k events of the buffer, in trigger order.
MostRecent(k) ==
    SubSeq(recent_alerts, Len(recent_alerts) - Min(k, Len(recent_alerts)) + 1,
           Len(recent_alerts))

C36_AtMostLimit ==
    probe.method = "get_recent_alerts" /\ probe.done =>
        /\ Len(probe.result) <= probe.limit
        /\ probe.result = MostRecent(probe.limit)

\* The part that holds: a positive limit.
PositiveLimit ==
    probe.method = "get_recent_alerts" /\ probe.done /\ probe.limit > 0 =>
        /\ Len(probe.result) <= probe.limit
        /\ probe.result = MostRecent(probe.limit)

\* What limit = 0 returns: the whole buffer.
ZeroLimitReturnsAll ==
    probe.method = "get_recent_alerts" /\ probe.done /\ probe.limit = 0 =>
        probe.result = recent_alerts

\* Calls that cut the buffer, that ask for more than it holds, and that ask
\* for nothing when it holds MaxAlerts events.
LimitCuts ==
    /\ probe.method = "get_recent_alerts" /\ probe.done
    /\ 0 < probe.limit /\ probe.limit < Len(recent_alerts)

LimitExceeds ==
    /\ probe.method = "get_recent_alerts" /\ probe.done
    /\ probe.limit > Len(recent_alerts) /\ Len(recent_alerts) > 0

ZeroLimitOnFullBuffer ==
    /\ probe.method = "get_recent_alerts" /\ probe.done
    /\ probe.limit = 0 /\ Len(recent_alerts) = MaxAlerts

(***************************************************************************)
(* C37.  A tentative track (hits < min_hits) that is not matched in an     *)
(* update is still returned by that update, with its stale bbox,           *)
(* hit_streak >= 1 and time_since_update = 1; from its second consecutive  *)
(* unmatched update on it is left out of the results, until it is matched  *)
(* again or pruned.                                                        *)
(***************************************************************************)
\* The track the last call returned for the identifier.
ReturnedFor(id) ==
    ReturnedList[CHOOSE k \in 1..Len(ReturnedList) : ReturnedList[k].track_id = id]

Tentative(t) == probe.before[t].hits < object_trackers["T"].min_hits

TentativeMatchedAgain ==
    \E t \in 1..Len(probe.before) :
        Tentative(t) /\ Matched(t) /\ probe.before[t].time_since_update = 2

(***************************************************************************)
(* Frame numbering (camera_manager.py, _capture_loop and get_frame).       *)
(***************************************************************************)
\* The frames of camera c that left the capture thread, in order: those
\* get_frame has returned, then those still buffered.
Enqueued(c) == delivered[c] \o streams[c].frame_queue

\* The frames are numbered 0, 1, 2, ... in the order given.
NumberedFromZero(frames) ==
    \A i \in 1..Len(frames) : frames[i].frame_number = i - 1

\* A step of camera c's capture thread that counts a reconnect attempt.
ReconnectStep(c) ==
    streams'[c].reconnect_attempts = streams[c].reconnect_attempts + 1

\* A step of camera c's capture thread that drops a frame on a full buffer.
DropStep(c) == dropped'[c] = dropped[c] + 1

\* C38: the frames get_frame returns for a camera are numbered 0, 1, 2, ...
\* without a gap, the buffered frames go on from there and the stream's
\* frame_number is the number of the next frame to enqueue; neither a frame
\* dropped on a full buffer nor a reconnect attempt changes frame_number.
C38_Numbered ==
    \A c \in DOMAIN streams :
        /\ NumberedFromZero(Enqueued(c))
        /\ streams[c].frame_number = Len(Enqueued(c))

C38_NumberKept ==
    \A c \in DOMAIN streams :
        (ReconnectStep(c) \/ DropStep(c))
        => streams'[c].frame_number = streams[c].frame_number

C38_ConsecutiveNumbers == [](C38_Numbered) /\ [][C38_NumberKept]_vars

\* Eleven frames were returned, numbered 0 to 10, around a dropped image: the
\* frame after the drop carries the next number although an image is missing
\* before it.
C38_Witness ==
    /\ dropped["cam1"] >= 1
    /\ Len(delivered["cam1"]) = QueueMaxSize + 1
    /\ delivered["cam1"][1].frame_number = 0
    /\ \E i \in 1..QueueMaxSize :
          /\ delivered["cam1"][i + 1].image = delivered["cam1"][i].image + 2
          /\ delivered["cam1"][i + 1].frame_number = delivered["cam1"][i].frame_number + 1

\* A frame read after a reconnect attempt is about to be enqueued behind
\* frames that were returned and buffered before the failed read.
NumberedAcrossReconnect ==
    /\ thread["cam1"] = "put"
    /\ readBetween["cam1"]
    /\ streams["cam1"].reconnect_attempts > 0
    /\ Len(delivered["cam1"]) > 0
    /\ Len(streams["cam1"].frame_queue) \in 1..(QueueMaxSize - 1)

(***************************************************************************)
(* C39.  A rule's zone_name has no effect on matching: every track matches *)
(* the rule exactly when it matches the same rule without its zone_name,   *)
(* and an evaluate call fires the rule exactly when the rule without its   *)
(* zone_name is met by the call's tracks and frame.                        *)
(***************************************************************************)
WithoutZone(rule) == [rule EXCEPT !.conditions.zone_name = None]

HasZone(n) == rules[n].conditions.zone_name # None

C39_ZoneIgnored ==
    probe.method = "evaluate" /\ probe.done =>
        \A n \in DOMAIN rules :
            HasZone(n) =>
                /\ \A i \in 1..Len(probe.tracks) :
                      _track_matches_conditions(probe.tracks[i], rules[n].conditions,
                                                probe.frame.camera_id)
                      <=> Satisfies(probe.tracks[i], WithoutZone(rules[n]).conditions)
                /\ Len(EventsOf(n)) = 1
                      <=> _evaluate_rule(WithoutZone(rules[n]), probe.tracks, probe.frame,
                                         TimeOfDay(probe.current_time))

\* The rule with a zone and a distance condition fired on a person near the
\* door.
C39_Witness ==
    /\ probe.method = "evaluate" /\ probe.done
    /\ HasZone("intrusion")
    /\ DOMAIN rules["intrusion"].conditions.distance_to_reference # {}
    /\ Len(probe.tracks) = 1
    /\ probe.tracks[1].track_id = 1
    /\ Len(EventsOf("intrusion")) = 1
    /\ EventsOf("intrusion")[1].track_id = 1

\* The rule with a zone did not fire on a person below its threshold.
ZoneRuleNotMet ==
    /\ probe.method = "evaluate" /\ probe.done
    /\ HasZone("intrusion")
    /\ Len(probe.tracks) = 1
    /\ probe.tracks[1].track_id = 2
    /\ Len(EventsOf("intrusion")) = 0

====
